---- MODULE Spec2Model ----
(***************************************************************************)
(* Model of the per-agent ingestion pipeline of the QR scan system:        *)
(* classification of arriving PDFs into pending (processor.py), the batch  *)
(* cycle that regroups, merges and uploads (batch_processor.py,            *)
(* pdf_processor.py), the folder flattening endpoint (web_app.py) and the  *)
(* PAUSE / RESUME / RUN_BATCH commands (api/standard.py).                  *)
(*                                                                         *)
(* A PDF is modelled by the sequence of its page hashes; a page and its    *)
(* hash are identified.  A file that does not exist is NoFile.  A file     *)
(* name <id>(a)(b).pdf is modelled by the identifier and the suffix        *)
(* sequence <<a, b>>.  Time advances in steps of the scheduler's sleep; the *)
(* model keeps the differences the code computes from the wall clock: the  *)
(* time since the last activity and the time left until next_retry_at.     *)
(***************************************************************************)
EXTENDS Integers, Sequences, FiniteSets, TLC

\* ------------------------------------------------------------ bounds
MaxId == 2            \* identifiers 1..MaxId
MaxPage == 2          \* distinct page hashes 1..MaxPage
MaxPagesPerScan == 1  \* pages of one scanned file
MaxFilePages == 2     \* pages of a file found on disk at a restart
MaxArrivals == 2      \* scanned files dropped into the inbox
MaxHash == 2          \* distinct file hashes 1..MaxHash of an artifact
MaxUploads == 4       \* calls of upload_file
MaxIp == 2            \* client addresses 1..MaxIp
MaxClockSteps == 4    \* advances of the wall clock of the rate limiter
MaxPath == 1          \* paths 1..MaxPath in the scanner's output folder
MaxSize == 1          \* file sizes 0..MaxSize
MaxWatcher == 2       \* FileWatcher objects in the process
MaxCount == 3         \* checks of one path while its size stays the same
MaxCallbacks == 2     \* callbacks counted for one file
MaxScan == 2          \* file names 1..MaxScan the scanner uses
MaxDocPages == 2      \* pages of a document given to the QR reader
MaxPageCodes == 2     \* codes the decoder reports on one page
MaxCommands == 2      \* requests to POST /api/command
MaxVersion == 2       \* "version" of a registry file
MaxTime == 2          \* modification times 1..MaxTime of the inputs of a merge

\* ------------------------------------------------------------ configuration
max_attempts == 3
initial_delay == 60
backoff_multiplier == 2
max_delay == 3600
idle_minutes == 1
SchedulerSleep == 60
pdf_remove_duplicates == TRUE
upload_type == "nas"
limiter_max_attempts == 5
lockout_minutes == 15
lockout_seconds == lockout_minutes * 60
stability_checks == 3

IDS == 1..MaxId
Pages == 1..MaxPage
NoFile == <<>>
Callers == {"scheduler", "manual"}

VARIABLES
    docs,            \* table scan_documents
    pendingDated,    \* pending/<yyyymmdd>/ : id -> (suffix -> pages)
    pending,         \* pending/            : id -> (suffix -> pages)
    merged,          \* merged/<id>.pdf     : id -> pages
    uploaded,        \* uploaded/<id>.pdf   : id -> pages
    error,           \* error/<id>.pdf      : id -> pages
    error_info,      \* error/<id>.error.json : id -> sidecar
    upload_queue,    \* table upload_queue, in row order
    processing,      \* BatchProcessor._processing
    paused,          \* _processor.paused
    phase,           \* per caller of process_batch: where it is
    todo,            \* per caller: queue_items still to be handled
    lastReq,         \* what the last call of process_batch did
    lastMerge,       \* per id: what the last cycle's regrouping did
    lastUpload,      \* what the last iteration of the upload loop did
    idle_for,        \* now - BatchProcessor._last_activity, seconds (capped)
    arrived,         \* number of files the scanner has written
    nas,             \* <nas path>/<id>.pdf : id -> file hash
    http_store,      \* idempotency keys the HTTP endpoint holds
    delivered,       \* per backend and key: deliveries the backend recorded
    upload_result,   \* what the last call of upload_file returned
    uploads,         \* number of calls of upload_file
    failures,        \* RateLimiter._failures : address -> record
    now,             \* time.time(), in seconds
    clock_steps,     \* advances of the clock so far
    auth_response,   \* what the last request to a protected endpoint got
    streak,          \* address -> failed authentications since the last success
    last_failure,    \* address -> time of the last failed authentication
    mode,            \* config.watcher.mode
    running,         \* the FileWatcher objects that were started
    inbox,           \* scanner_output/ : path -> size of the file, or Absent
    file_sizes,      \* per watcher: FileStabilityChecker._file_sizes
    check_counts,    \* per watcher: FileStabilityChecker._check_counts
    pending_files,   \* per watcher: PDFEventHandler._pending_files
    processed_files, \* per watcher: processed_files of polling_loop
    observed,        \* per watcher and path: sizes its checks observed
    last_pass,       \* the watcher that checked last, and what it released
    callbacks,       \* path -> callbacks made for the file now at the path
    tasks,           \* paths with a _process_new_file_async task on the event loop
    scanner_output,  \* scanner_output/<name>.pdf : name -> pages
    errorDated,      \* error/<yyyymmdd>/ : name -> (suffix -> pages)
    errorDatedInfo,  \* error/<yyyymmdd>/ : name -> (suffix -> sidecar)
    multiple_qr_action, \* config.qr.multiple_qr_action
    classified,      \* what the last run of _process_new_file_async did
    qr_document,     \* the document last given to process_document
    qr_result,       \* what process_document returned for it
    batch_response,  \* the answer to the last request for a batch cycle
    standard_api,    \* api.standard._processor and audit.logger.audit_logger: set or None
    commands,        \* number of requests to POST /api/command so far
    command_response, \* the last request to POST /api/command and its answer
    audit_entries,   \* the lines of logs/admin_actions.log
    registry_source, \* instances.local.json as the operator wrote it
    registry_file,   \* instances.local.json
    registry_instances, \* RegistryManager._instances, in insertion order
    registry_version, \* RegistryManager._version
    first_load,      \* _instances after the first load
    registry_phase,  \* how far the load, save, load sequence has come
    update_response, \* status of the last PUT /api/admin/instances, 0 before any
    probes,          \* what GET /api/status of each instance met, by row
    health_list,     \* the last answer of GET /api/admin/instances/health
    health_done,     \* whether that endpoint has been requested
    jobs,            \* per inbox file: its _process_new_file_async task
    loop_owner,      \* the task the event loop is running, 0 between tasks
    merge_inputs,    \* the files of one group handed to the regrouping
    merge_output     \* the pages of the artifact written for them

\* the batch pipeline
pipelineVars == <<docs, pendingDated, pending, merged, uploaded, error, error_info,
                  upload_queue, processing, paused, phase, todo, lastReq, lastMerge,
                  lastUpload, idle_for, arrived>>

\* the components the batch pipeline does not touch
classifyVars == <<scanner_output, errorDated, errorDatedInfo, multiple_qr_action,
                  classified>>
uploaderVars == <<nas, http_store, delivered, upload_result, uploads>>
authVars == <<failures, now, clock_steps, auth_response, streak, last_failure>>
watcherVars == <<mode, running, inbox, file_sizes, check_counts, pending_files,
                 processed_files, observed, last_pass, callbacks, tasks>>
qrVars == <<qr_document, qr_result>>
apiVars == <<standard_api, commands, command_response, audit_entries>>
commandVars == <<batch_response, apiVars>>
registryVars == <<registry_source, registry_file, registry_instances,
                  registry_version, first_load, registry_phase, update_response>>
healthVars == <<probes, health_list, health_done>>
poolVars == <<jobs, loop_owner>>
orderVars == <<merge_inputs, merge_output>>
moreVars == <<qrVars, commandVars, registryVars, healthVars, poolVars, orderVars>>
\* the components a request for a batch cycle does not touch
besideBatchVars == <<uploaderVars, authVars, watcherVars, classifyVars, qrVars,
                     registryVars, healthVars, poolVars, orderVars>>
subsystemVars == <<uploaderVars, authVars, watcherVars, classifyVars, moreVars>>
coreVars == <<pipelineVars, uploaderVars, authVars, watcherVars, classifyVars,
              poolVars, orderVars>>

vars == <<pipelineVars, subsystemVars>>

fsVars == <<pendingDated, pending, merged, uploaded, error, error_info>>

EmptyDir == [x \in IDS |-> <<>>]
NoFiles == [x \in IDS |-> NoFile]
NoSidecar == [keys |-> {}, error_message |-> "none"]
NoSidecars == [x \in IDS |-> NoSidecar]
NoMerge == [target |-> "none", folders |-> {}, pages |-> {}, input_pages |-> 0]

\* ------------------------------------------------------------ sequences
Range(s) == {s[i] : i \in DOMAIN s}

RECURSIVE SeqsUpTo(_, _)
SeqsUpTo(S, n) ==
    IF n = 0 THEN {<<>>}
    ELSE LET shorter == SeqsUpTo(S, n - 1)
         IN shorter \cup {Append(s, e) : s \in {t \in shorter : Len(t) = n - 1}, e \in S}

ScanContents == SeqsUpTo(Pages, MaxPagesPerScan) \ {<<>>}

Perms(S) ==
    {p \in [1..Cardinality(S) -> S] : \A i, j \in 1..Cardinality(S) : p[i] = p[j] => i = j}

\* directory d with the file named k holding v (an existing k is overwritten)
Put(d, k, v) == [s \in DOMAIN d \cup {k} |-> IF s = k THEN v ELSE d[s]]
Without(d, K) == [s \in DOMAIN d \ K |-> d[s]]

\* ------------------------------------------------------------ arrival
FreeCounterFirst(d, stem) == 1

\* smallest counter c >= 1 such that <stem>(c).pdf is free in directory d
FreeCounter(d, stem) ==
    CHOOSE c \in 1..(Cardinality(DOMAIN d) + 1) :
        /\ Append(stem, c) \notin DOMAIN d
        /\ \A b \in 1..(c - 1) : Append(stem, b) \in DOMAIN d

\* the name _move_to_pending gives a new file in a directory d of one id
PendingName(d) ==
    IF <<>> \in DOMAIN d THEN <<FreeCounter(d, <<>>)>> ELSE <<>>

\* _process_new_file_async for a released file whose QR read returns the
\* one valid code x: the document is registered with the inbox path, marked
\* PENDING, the file is moved to pending/<date>/ and the activity recorded
ProcessNewFile ==
    /\ arrived < MaxArrivals
    /\ \E x \in IDS, c \in ScanContents :
          /\ docs' = Append(docs, [transport_no |-> x, status |-> "PENDING"])
          /\ pendingDated' = [pendingDated EXCEPT ![x] = Put(@, PendingName(@), c)]
    /\ arrived' = arrived + 1
    /\ idle_for' = 0
    /\ UNCHANGED <<pending, merged, uploaded, error, error_info, upload_queue,
                   processing, paused, phase, todo, lastReq, lastMerge, lastUpload>>
    /\ UNCHANGED subsystemVars

\* ------------------------------------------------------------ cleanup_folders
\* the name a file pending/<date>/<id><sfx>.pdf gets in pending/
FlatName(flat, sfx) ==
    IF sfx \in DOMAIN flat THEN Append(sfx, FreeCounter(flat, sfx)) ELSE sfx

\* the files of one date directory moved into the flat directory, in the
\* order the directory listing returns them
RECURSIVE FlattenInto(_, _, _)
FlattenInto(flat, dated, order) ==
    IF order = <<>> THEN flat
    ELSE FlattenInto(Put(flat, FlatName(flat, Head(order)), dated[Head(order)]),
                     dated, Tail(order))

FlattenResults(x) ==
    {FlattenInto(pending[x], pendingDated[x], o) : o \in Perms(DOMAIN pendingDated[x])}

\* POST /cleanup-folders
CleanupFolders ==
    /\ \E x \in IDS : DOMAIN pendingDated[x] # {}
    /\ \E f \in [IDS -> UNION {FlattenResults(x) : x \in IDS}] :
          /\ \A x \in IDS : f[x] \in FlattenResults(x)
          /\ pending' = f
    /\ pendingDated' = EmptyDir
    /\ UNCHANGED <<docs, merged, uploaded, error, error_info, upload_queue,
                   processing, paused, phase, todo, lastReq, lastMerge, idle_for,
                   arrived, lastUpload>>
    /\ UNCHANGED subsystemVars

\* ------------------------------------------------------------ merge_pdfs
\* file name order: '(' sorts before '.', so <id>(1).pdf precedes <id>.pdf
NameBefore(s, t) ==
    LET n == IF Len(s) < Len(t) THEN Len(s) ELSE Len(t)
        diff == {i \in 1..n : s[i] # t[i]}
    IN IF diff # {}
       THEN LET i == CHOOSE k \in diff : \A m \in diff : k <= m IN s[i] < t[i]
       ELSE Len(s) > Len(t)

Rank(folder) == IF folder = "uploaded" THEN 0 ELSE IF folder = "merged" THEN 1 ELSE 2

\* the order in which merge_pdfs reads its inputs: the caller sorts by
\* (folder rank, mtime), merge_pdfs then sorts stably by file name; two
\* inputs of one group share a name only across folders
FileBefore(a, b) ==
    \/ NameBefore(a.sfx, b.sfx)
    \/ a.sfx = b.sfx /\ Rank(a.folder) < Rank(b.folder)

RECURSIVE SortFiles(_)
SortFiles(S) ==
    IF S = {} THEN <<>>
    ELSE LET first == CHOOSE a \in S : \A b \in S \ {a} : FileBefore(a, b)
         IN <<first>> \o SortFiles(S \ {first})

\* the content of a file PdfReader raises on
InvalidPDF == <<0>>

\* reader.pages of one input; an input that cannot be read adds no page
ReadPages(content) == IF content = InvalidPDF THEN <<>> ELSE content

RECURSIVE Flatten(_)
Flatten(files) ==
    IF files = <<>> THEN <<>>
    ELSE ReadPages(Head(files).pages) \o Flatten(Tail(files))

\* pages in order, a page whose hash was already written is dropped
RECURSIVE Dedup(_, _)
Dedup(ps, seen) ==
    IF ps = <<>> THEN <<>>
    ELSE IF Head(ps) \in seen THEN Dedup(Tail(ps), seen)
         ELSE <<Head(ps)>> \o Dedup(Tail(ps), seen \cup {Head(ps)})

merge_pdfs_keep_all(files, remove_duplicates) ==
    [success |-> Flatten(files) # <<>>, pages |-> Flatten(files)]

merge_pdfs(files, remove_duplicates) ==
    LET all == Flatten(files)
        out == IF remove_duplicates THEN Dedup(all, {}) ELSE all
    IN [success |-> out # <<>>, pages |-> out]

\* ------------------------------------------------------------ regrouping
\* file_groups of one identifier as _process_pending_documents collects it
GroupFiles(x) ==
    {[folder |-> "pending", sfx |-> s, pages |-> pending[x][s]] : s \in DOMAIN pending[x]}
    \cup (IF merged[x] # NoFile
          THEN {[folder |-> "merged", sfx |-> <<>>, pages |-> merged[x]]} ELSE {})
    \cup (IF uploaded[x] # NoFile
          THEN {[folder |-> "uploaded", sfx |-> <<>>, pages |-> uploaded[x]]} ELSE {})

Folders(files) == {f.folder : f \in files}

NeedsMerge(files) == "pending" \in Folders(files) \/ Cardinality(files) > 1

TargetFolder(files) ==
    IF "uploaded" \in Folders(files) /\ "pending" \in Folders(files) THEN "merged"
    ELSE IF "uploaded" \in Folders(files) THEN "uploaded"
    ELSE "merged"

FilesToDeleteAll(files, target) == files

FilesToDeleteNone(files, target) == {}

\* the inputs unlinked after the rename: all but the target path itself
FilesToDelete(files, target) ==
    {f \in files : ~(f.folder = target /\ f.sfx = <<>>)}

\* _merge_transport_group_from_all_folders for identifier x: the three
\* directories of x afterwards, and what was done
MergeGroup(x) ==
    LET files == GroupFiles(x)
        target == TargetFolder(files)
        result == merge_pdfs(SortFiles(files), TRUE)
        gone == FilesToDelete(files, target)
        kept(folder, old) ==
            IF folder = target
            THEN (IF [folder |-> target, sfx |-> <<>>, pages |-> old] \in gone
                  THEN NoFile ELSE result.pages)
            ELSE (IF [folder |-> folder, sfx |-> <<>>, pages |-> old] \in gone
                  THEN NoFile ELSE old)
    IN IF ~NeedsMerge(files) \/ ~result.success
       THEN [pending |-> pending[x], merged |-> merged[x], uploaded |-> uploaded[x],
             log |-> NoMerge]
       ELSE [pending |-> Without(pending[x],
                            {f.sfx : f \in {g \in gone : g.folder = "pending"}}),
             merged |-> kept("merged", merged[x]),
             uploaded |-> kept("uploaded", uploaded[x]),
             log |-> [target |-> target, folders |-> Folders(files),
                      pages |-> UNION {Range(ReadPages(f.pages)) : f \in files},
                      input_pages |-> Len(Flatten(SortFiles(files)))]]

\* the group of identifier x raises: it needs a merge and merge_pdfs wrote
\* no page
GroupRaises(x) ==
    /\ NeedsMerge(GroupFiles(x))
    /\ ~merge_pdfs(SortFiles(GroupFiles(x)), TRUE).success

\* the orders in which transport_groups.items() can yield the groups: the
\* order in which glob listed their first file
GroupOrders == Perms({x \in IDS : GroupFiles(x) # {}})

RECURSIVE GroupsReachedUntilRaise(_)
GroupsReachedUntilRaise(order) ==
    IF order = <<>> THEN {}
    ELSE {Head(order)}
         \cup (IF GroupRaises(Head(order)) THEN {}
               ELSE GroupsReachedUntilRaise(Tail(order)))

\* the groups the loop over transport_groups hands to the merge: the try
\* inside the loop catches what a group raises and the loop goes on
GroupsReached(order) == Range(order)

\* a group the loop does not merge
Untouched(x) ==
    [pending |-> pending[x], merged |-> merged[x], uploaded |-> uploaded[x],
     log |-> NoMerge]

\* ------------------------------------------------------------ order of a merge
\* The inputs of one group with their modification times.  Every input has
\* one page of its own, so the pages of the artifact show the order in which
\* the inputs were read.
Times == 1..MaxTime
InputNames ==
    {[folder |-> "pending", sfx |-> <<>>], [folder |-> "pending", sfx |-> <<1>>],
     [folder |-> "merged", sfx |-> <<>>], [folder |-> "uploaded", sfx |-> <<>>]}

PageOf(folder, sfx) == 2 * Rank(folder) + Len(sfx) + 1

InputGroups ==
    UNION {{{[folder |-> n.folder, sfx |-> n.sfx, st_mtime |-> t[n],
              pages |-> <<PageOf(n.folder, n.sfx)>>] : n \in N} :
            t \in [N -> Times]} : N \in SUBSET InputNames}

\* the key of all_pdf_files.sort: the folder first, then the file time
KeyBefore(a, b) ==
    \/ Rank(a.folder) < Rank(b.folder)
    \/ Rank(a.folder) = Rank(b.folder) /\ a.st_mtime < b.st_mtime

\* all_pdf_files after its sort; inputs with equal keys are in one folder
\* and differ in their names
RECURSIVE SortByKey(_)
SortByKey(S) ==
    IF S = {} THEN <<>>
    ELSE LET first == CHOOSE a \in S : \A b \in S \ {a} :
                         \/ KeyBefore(a, b)
                         \/ ~KeyBefore(b, a) /\ NameBefore(a.sfx, b.sfx)
         IN <<first>> \o SortByKey(S \ {first})

\* list.insert of one file into a list sorted by name, behind its equals
RECURSIVE InsertByName(_, _)
InsertByName(sorted, f) ==
    IF sorted = <<>> THEN <<f>>
    ELSE IF NameBefore(f.sfx, Head(sorted).sfx) THEN <<f>> \o sorted
    ELSE <<Head(sorted)>> \o InsertByName(Tail(sorted), f)

\* sorted(pdf_files, key=lambda x: x.name) of merge_pdfs: a stable sort
RECURSIVE SortedByName(_)
SortedByName(files) ==
    IF files = <<>> THEN <<>>
    ELSE InsertByName(SortedByName(SubSeq(files, 1, Len(files) - 1)),
                      files[Len(files)])

\* the pages of the artifact _merge_transport_group_from_all_folders writes
\* for a group
MergedPages(group) == merge_pdfs(SortedByName(SortByKey(group)), TRUE).pages

NoOutput == <<0>>

\* the regrouping of one group
MergeInputs ==
    /\ merge_output = NoOutput
    /\ merge_inputs # {}
    /\ merge_output' = MergedPages(merge_inputs)
    /\ UNCHANGED merge_inputs
    /\ UNCHANGED <<pipelineVars, uploaderVars, authVars, watcherVars, classifyVars,
                   poolVars>>
    /\ UNCHANGED <<qrVars, commandVars, registryVars, healthVars>>

OrderInit ==
    /\ merge_inputs = {}
    /\ merge_output = NoOutput

\* any group of one identifier, with any file times
OrderInputs ==
    /\ merge_inputs \in InputGroups
    /\ merge_output = NoOutput

\* ------------------------------------------------------------ batch cycle
PendingDocs(x) ==
    {i \in DOMAIN docs : docs[i].status = "PENDING" /\ docs[i].transport_no = x}

FirstDoc(x) == CHOOSE i \in PendingDocs(x) : \A j \in PendingDocs(x) : i <= j

\* the identifiers of _process_merges' groups, in the order of the query
RECURSIVE OrderedIds(_)
OrderedIds(S) ==
    IF S = {} THEN <<>>
    ELSE LET x == CHOOSE a \in S : \A b \in S : FirstDoc(a) <= FirstDoc(b)
         IN <<x>> \o OrderedIds(S \ {x})

\* _merge_group on the merged file left by the regrouping: the documents'
\* own paths are the inbox paths they were registered with, which no longer
\* exist, so the only input is the existing merged file
MergeGroupResult(mergedFile) ==
    IF mergedFile = NoFile
    THEN [success |-> TRUE, pages |-> NoFile]
    ELSE merge_pdfs(<<[pages |-> mergedFile]>>, pdf_remove_duplicates)

QueueEntry(x) ==
    [transport_no |-> x, document_id |-> FirstDoc(x), retry_count |-> 0,
     retry_wait |-> 0]

ProcessingGuardOff == FALSE

\* `if self._processing: return`
ProcessingGuard == processing

\* the rows _process_uploads handles
UploadCandidates(q) ==
    IF upload_type = "none" THEN <<>>
    ELSE SelectSeq(q, LAMBDA e : e.retry_count < max_attempts)

\* process_batch up to its first suspension: the regrouping of all folders,
\* _process_merges and the query of _process_uploads
BeginCycle(c, queue) ==
    \E group_order \in GroupOrders :
    LET m == [x \in IDS |-> IF x \in GroupsReached(group_order)
                            THEN MergeGroup(x) ELSE Untouched(x)]
        groups == {x \in IDS : PendingDocs(x) # {}}
        r == [x \in IDS |-> MergeGroupResult(m[x].merged)]
        done == {x \in groups : r[x].success}
        order == SelectSeq(OrderedIds(groups), LAMBDA x : x \in done)
        queue2 == queue \o [i \in 1..Len(order) |-> QueueEntry(order[i])]
    IN /\ processing' = TRUE
       /\ pending' = [x \in IDS |-> m[x].pending]
       /\ merged' = [x \in IDS |-> IF x \in done THEN r[x].pages ELSE m[x].merged]
       /\ uploaded' = [x \in IDS |-> m[x].uploaded]
       /\ lastMerge' = [x \in IDS |-> m[x].log]
       /\ docs' = [i \in DOMAIN docs |->
                     IF docs[i].status = "PENDING" /\ docs[i].transport_no \in done
                     THEN [docs[i] EXCEPT !.status = "MERGED"] ELSE docs[i]]
       /\ upload_queue' = queue2
       /\ todo' = [todo EXCEPT ![c] = UploadCandidates(queue2)]
       /\ phase' = [phase EXCEPT ![c] = "upload"]
       /\ lastReq' = "started"
       /\ UNCHANGED <<pendingDated, error, error_info, paused, lastUpload, arrived>>

\* a call of process_batch by caller c, the upload queue being queue
Request(c, queue) ==
    /\ phase[c] = "idle"
    /\ IF ProcessingGuard
       THEN /\ lastReq' = "skipped"
            /\ upload_queue' = queue
            /\ UNCHANGED <<docs, fsVars, processing, paused, phase, todo,
                           lastMerge, lastUpload, arrived>>
       ELSE BeginCycle(c, queue)

\* the first multiple of the scheduler's sleep beyond the idle threshold
IdleCap == (((idle_minutes * 60) \div SchedulerSleep) + 1) * SchedulerSleep

is_idle(since_last_activity) == since_last_activity > idle_minutes * 60

\* SchedulerSleep seconds have passed for the rows of the upload queue
Aged(q) ==
    [i \in DOMAIN q |->
        [q[i] EXCEPT !.retry_wait = IF @ > SchedulerSleep THEN @ - SchedulerSleep ELSE 0]]

\* the handler of a request for a batch cycle has not answered yet
Waiting(command) == [command |-> command, status |-> "waiting"]

\* the handler's answer: success is the "success" member of the JSON body
Answer(command, success) ==
    [command |-> command, status |-> IF success THEN "success" ELSE "failure"]

NoBatchResponse == [command |-> "none", status |-> "none"]

NoCommand ==
    [type |-> "none", username |-> "none", ip |-> 0, payload |-> FALSE,
     http |-> 0, success |-> FALSE]

ApiInit ==
    /\ commands = 0
    /\ command_response = NoCommand
    /\ audit_entries = <<>>

\* a kiosk after start-up: modes/kiosk.py calls the init_audit_logger of the
\* audit package, which sets the package's _audit_logger; the audit_logger
\* global that audit_log reads stays None
CommandInit ==
    /\ batch_response = NoBatchResponse
    /\ standard_api = [processor |-> TRUE, audit_logger |-> FALSE]
    /\ ApiInit

\* POST /batch/process -> force_batch_process: the handler awaits
\* process_batch and answers when it has returned
TriggerBatch ==
    /\ Request("manual", upload_queue)
    /\ batch_response' = IF phase'["manual"] = "idle"
                         THEN Answer("trigger_batch", TRUE)
                         ELSE Waiting("trigger_batch")
    /\ UNCHANGED <<idle_for, apiVars>>
    /\ UNCHANGED besideBatchVars

\* the .error.json written next to a file moved to error/
ErrorSidecar(error_message) ==
    [keys |-> {"original_path", "error_message", "moved_at"},
     error_message |-> error_message]

RetryDelay(retry_count) ==
    LET d == initial_delay * backoff_multiplier ^ retry_count
    IN IF d < max_delay THEN d ELSE max_delay

\* a row of the queue is identified by its key; a document has at most one row
SameRow(e, item) == e.document_id = item.document_id

RemoveItemKeep(q, item) == q

\* session.delete(item)
RemoveItem(q, item) == SelectSeq(q, LAMBDA e : ~SameRow(e, item))

ReplaceItemDrop(q, item, new) == SelectSeq(q, LAMBDA e : ~SameRow(e, item))

\* the row of the queue after `item.retry_count += 1` and the new next_retry_at
ReplaceItem(q, item, new) ==
    [i \in DOMAIN q |-> IF SameRow(q[i], item) THEN new ELSE q[i]]

\* the head of one iteration of the loop of _process_uploads: the path check,
\* then the call of upload_manager.upload_file, at which the cycle is suspended
\* until the backend answers
BeginUpload(c) ==
    LET item == Head(todo[c])
        x == item.transport_no
    IN /\ phase[c] = "upload"
       /\ todo[c] # <<>>
       /\ IF merged[x] = NoFile
          THEN /\ todo' = [todo EXCEPT ![c] = Tail(@)]
               /\ upload_queue' = RemoveItem(upload_queue, item)
               /\ lastUpload' = "missing"
               /\ UNCHANGED phase
          ELSE /\ phase' = [phase EXCEPT ![c] = "uploading"]
               /\ UNCHANGED <<todo, upload_queue, lastUpload>>
       /\ UNCHANGED <<docs, pendingDated, pending, merged, uploaded, error, error_info,
                      processing, paused, lastReq, lastMerge, idle_for, arrived>>
       /\ UNCHANGED subsystemVars

\* the rest of the iteration, run when upload_file returns; ok is the backend's answer
UploadItem(c, ok) ==
    LET item == Head(todo[c])
        x == item.transport_no
        failed == [item EXCEPT !.retry_count = @ + 1]
    IN /\ phase[c] = "uploading"
       /\ todo' = [todo EXCEPT ![c] = Tail(@)]
       /\ phase' = [phase EXCEPT ![c] = "upload"]
       /\ IF ok
          THEN /\ uploaded' = [uploaded EXCEPT ![x] = merged[x]]
               /\ merged' = [merged EXCEPT ![x] = NoFile]
               /\ docs' = [i \in DOMAIN docs |->
                             IF i = item.document_id
                             THEN [docs[i] EXCEPT !.status = "UPLOADED"] ELSE docs[i]]
               /\ upload_queue' = RemoveItem(upload_queue, item)
               /\ lastUpload' = "ok"
               /\ UNCHANGED <<error, error_info>>
          ELSE IF failed.retry_count >= max_attempts
          THEN /\ error' = [error EXCEPT ![x] = merged[x]]
               /\ error_info' = [error_info EXCEPT ![x] = ErrorSidecar("upload failed")]
               /\ merged' = [merged EXCEPT ![x] = NoFile]
               /\ upload_queue' = RemoveItem(upload_queue, item)
               /\ lastUpload' = "failed"
               /\ UNCHANGED <<uploaded, docs>>
          ELSE /\ upload_queue' = ReplaceItem(upload_queue, item,
                      [failed EXCEPT !.retry_wait = RetryDelay(failed.retry_count)])
               /\ lastUpload' = "failed"
               /\ UNCHANGED <<merged, uploaded, error, error_info, docs>>
       /\ UNCHANGED <<pendingDated, pending, processing, paused, lastReq,
                      lastMerge, idle_for, arrived>>
       /\ UNCHANGED subsystemVars

BeginUploadStep == \E c \in Callers : BeginUpload(c)

UploadStep == \E c \in Callers, ok \in BOOLEAN : UploadItem(c, ok)

AfterCycleStuck(raised) == raised

\* _processing when process_batch returns: the finally clause clears it,
\* whether the try block ended or raised
AfterCycle(raised) == FALSE

\* the rest of process_batch: _process_retries only logs, _cleanup_old_files
\* prunes date-named subdirectories, the finally clause clears the flag
EndCycle ==
    \E c \in Callers :
        /\ phase[c] = "upload"
        /\ todo[c] = <<>>
        /\ phase' = [phase EXCEPT ![c] = "idle"]
        /\ processing' = AfterCycle(FALSE)
        /\ lastUpload' = "none"
        /\ batch_response' = IF c = "manual"
                             THEN Answer("trigger_batch", TRUE)
                             ELSE batch_response
        /\ UNCHANGED <<docs, fsVars, upload_queue, paused, todo, lastReq,
                       lastMerge, idle_for, arrived>>
        /\ UNCHANGED <<besideBatchVars, apiVars>>

\* a phase raises outside the try of one group or one queue row: the query
\* of _process_uploads before its first row, or the query of
\* _process_retries after the last one.  The except clause of process_batch
\* logs the error and the finally clause runs; the caller gets no exception
CycleRaises ==
    \E c \in Callers :
        /\ phase[c] = "upload"
        /\ lastUpload = "none" \/ todo[c] = <<>>
        /\ phase' = [phase EXCEPT ![c] = "idle"]
        /\ todo' = [todo EXCEPT ![c] = <<>>]
        /\ processing' = AfterCycle(TRUE)
        /\ lastReq' = "raised"
        /\ lastUpload' = "none"
        /\ batch_response' = IF c = "manual"
                             THEN Answer("trigger_batch", TRUE)
                             ELSE batch_response
        /\ UNCHANGED <<docs, fsVars, upload_queue, paused, lastMerge, idle_for,
                       arrived>>
        /\ UNCHANGED <<besideBatchVars, apiVars>>

\* ------------------------------------------------------------ commands
\* POST /api/command {type: PAUSE}
Pause ==
    /\ ~paused
    /\ paused' = TRUE
    /\ UNCHANGED <<docs, fsVars, upload_queue, processing, phase, todo,
                   lastReq, lastMerge, lastUpload, idle_for, arrived>>
    /\ UNCHANGED subsystemVars

\* POST /api/command {type: RESUME}
Resume ==
    /\ paused
    /\ paused' = FALSE
    /\ UNCHANGED <<docs, fsVars, upload_queue, processing, phase, todo,
                   lastReq, lastMerge, lastUpload, idle_for, arrived>>
    /\ UNCHANGED subsystemVars

\* POST /api/command {type: RUN_BATCH}: the handler calls
\* _processor.run_batch(), a method the processor does not have; the
\* AttributeError is caught and reported, no cycle starts
RunBatchCommand ==
    /\ batch_response' = Answer("RUN_BATCH", FALSE)
    /\ UNCHANGED <<pipelineVars, besideBatchVars, apiVars>>

\* SchedulerSleep seconds pass; the sleep of _batch_scheduler (idle mode)
\* ends and, unless it is inside process_batch, it takes its turn: it calls
\* process_batch when is_idle() holds
Tick ==
    LET elapsed == IF idle_for + SchedulerSleep < IdleCap
                   THEN idle_for + SchedulerSleep ELSE IdleCap
    IN /\ idle_for' = elapsed
       /\ UNCHANGED subsystemVars
       /\ IF phase["scheduler"] = "idle" /\ is_idle(elapsed)
          THEN Request("scheduler", Aged(upload_queue))
          ELSE /\ upload_queue' = Aged(upload_queue)
               /\ UNCHANGED <<docs, fsVars, processing, paused, phase, todo, lastReq,
                              lastMerge, lastUpload, arrived>>

\* ------------------------------------------------------------ uploader
\* The uploader sees an artifact as its transport number and the hash of
\* its bytes.  The NAS is the directory the files are copied to; the HTTP
\* endpoint is an idempotent receiver: it keeps the keys it has stored and
\* answers 409 to a key it holds.
Hashes == 1..MaxHash
NoHash == 0
PartialCopy == MaxHash + 1
Backends == {"nas", "http"}
\* the values of upload.type: those UploadManager knows and the name the
\* configuration reference gives the combined backend
UploaderTypes == {"nas", "http", "both", "none", "dual"}
Keys == IDS \X Hashes
NoResult ==
    [type |-> "none", uploader |-> "none", key |-> <<0, 0>>, success |-> FALSE,
     nas |-> "none", http |-> "none"]

\* UploadManager.__init__: the uploader for a value of upload.type
Uploader(type) ==
    CASE type = "none" -> "DummyUploader"
      [] type = "nas" -> "NASUploader"
      [] type = "http" -> "HTTPUploader"
      [] type = "both" -> "CombinedUploader"
      [] OTHER -> "ValueError"

get_idempotency_key(transport_no, file_hash) == <<transport_no, file_hash>>

AlreadyOnNASNever(x, h) == FALSE

\* `if dest_file.exists(): ... if existing_hash == file_hash`
AlreadyOnNAS(x, h) == nas[x] = h

\* NASUploader.upload: the directory afterwards and the answer, copied being
\* whether shutil.copy2 and the size check went through
NASUpload(x, h, copied) ==
    IF AlreadyOnNAS(x, h) THEN [nas |-> nas, wrote |-> FALSE, answer |-> "same"]
    ELSE IF copied THEN [nas |-> [nas EXCEPT ![x] = h], wrote |-> TRUE, answer |-> "ok"]
    ELSE [nas |-> nas, wrote |-> FALSE, answer |-> "failed"]

\* what a copy that broke off can leave at the destination
NASAfterFailure(x) == {nas, [nas EXCEPT ![x] = PartialCopy]}

\* the status codes the endpoint can answer to a key, and a timeout
HTTPAnswers(key) ==
    IF key \in http_store THEN {"409", "500", "timeout"}
    ELSE {"200", "stored-timeout", "500", "timeout"}

\* `status_code == 200` or `status_code == 409`
HTTPSuccess(answer) == answer \in {"200", "409"}

\* UploadManager.upload_file with the uploader of the given type
UploadFile ==
    /\ uploads < MaxUploads
    /\ uploads' = uploads + 1
    /\ \E type \in UploaderTypes, x \in IDS, h \in Hashes, copied \in BOOLEAN :
       \E answer \in HTTPAnswers(get_idempotency_key(x, h)) :
          LET key == get_idempotency_key(x, h)
              uploader == Uploader(type)
              useNAS == uploader \in {"NASUploader", "CombinedUploader"}
              useHTTP == uploader \in {"HTTPUploader", "CombinedUploader"}
              n == NASUpload(x, h, copied)
              nasOK == useNAS /\ n.answer \in {"same", "ok"}
              httpOK == useHTTP /\ HTTPSuccess(answer)
              stored == useHTTP /\ answer \in {"200", "stored-timeout"}
          IN /\ IF ~useNAS THEN nas' = nas
                ELSE IF n.answer = "failed" THEN nas' \in NASAfterFailure(x)
                ELSE nas' = n.nas
             /\ http_store' = IF stored THEN http_store \cup {key} ELSE http_store
             /\ delivered' =
                   [b \in Backends |-> [k \in Keys |->
                       IF k = key /\ ((b = "nas" /\ useNAS /\ n.wrote)
                                      \/ (b = "http" /\ stored))
                       THEN delivered[b][k] + 1 ELSE delivered[b][k]]]
             /\ upload_result' =
                   [type |-> type, uploader |-> uploader, key |-> key,
                    success |-> nasOK \/ httpOK \/ uploader = "DummyUploader",
                    nas |-> IF useNAS THEN n.answer ELSE "none",
                    http |-> IF useHTTP THEN answer ELSE "none"]
    /\ UNCHANGED <<pipelineVars, authVars, watcherVars, classifyVars, moreVars>>

UploaderInit ==
    /\ nas = [x \in IDS |-> NoHash]
    /\ http_store = {}
    /\ delivered = [b \in Backends |-> [k \in Keys |-> 0]]
    /\ upload_result = NoResult
    /\ uploads = 0

\* ------------------------------------------------------------ authentication
\* A request to a protected endpoint comes from an address and carries no
\* usable Authorization header, a wrong password or the right one.  The
\* endpoints of the admin API depend on auth.get_current_user, which asks the
\* BasicAuthProvider and its RateLimiter; the endpoints of web_app depend on
\* verify_credentials, which compares the password and nothing else.
IPs == 1..MaxIp
Credentials == {"none", "wrong", "right"}
Entries == {"provider", "web"}
NoRecord == [attempts |-> 0, locked_until |-> 0, last_attempt |-> 0]
NoRetryAfter == 0 - 1
NoResponse ==
    [ip |-> 0, via |-> "none", credentials |-> "none", status |-> 0,
     locked |-> FALSE, retry_after |-> NoRetryAfter, counted |-> 0,
     audit |-> "none"]

is_locked_never(record, t) == FALSE

\* RateLimiter.is_locked: the first component of its answer
is_locked(record, t) == record.locked_until > t

after_is_locked_keep(record, t) == record

\* RateLimiter.is_locked: what it leaves of the record
after_is_locked(record, t) ==
    IF is_locked(record, t) THEN record
    ELSE IF record.locked_until > 0 THEN NoRecord
    ELSE record

\* RateLimiter.record_failure
record_failure(record, t) ==
    LET attempts == record.attempts + 1
    IN [attempts |-> attempts,
        locked_until |-> IF attempts >= limiter_max_attempts
                         THEN t + lockout_seconds ELSE record.locked_until,
        last_attempt |-> t]

record_success_keep(record) == record

\* RateLimiter.record_success
record_success(record) == NoRecord

\* the failed authentications that count at time t: a lockout that has run
\* out starts the count anew
Streak(ip, t) ==
    IF streak[ip] >= limiter_max_attempts /\ t >= last_failure[ip] + lockout_seconds
    THEN 0 ELSE streak[ip]

\* what a handler of the admin API writes to the audit log once it runs
HandlerAudit == {"none", "SUCCESS", "ERROR"}

\* auth.get_current_user over BasicAuthProvider.verify
ProviderRequest(ip, credentials) ==
    LET record == failures[ip]
        checked == after_is_locked(record, now)
        answer(status, locked, counted, audit) ==
            [ip |-> ip, via |-> "provider", credentials |-> credentials,
             status |-> status, locked |-> locked, retry_after |-> NoRetryAfter,
             counted |-> counted, audit |-> audit]
    IN IF credentials = "none"
       THEN /\ auth_response' = answer(401, FALSE, 0, "none")
            /\ UNCHANGED <<failures, streak, last_failure>>
       ELSE IF is_locked(record, now)
       THEN /\ auth_response' = answer(401, TRUE, 0, "none")
            /\ UNCHANGED <<failures, streak, last_failure>>
       ELSE IF credentials = "wrong"
       THEN /\ failures' = [failures EXCEPT ![ip] = record_failure(checked, now)]
            /\ auth_response' = answer(401, FALSE, 1, "none")
            /\ streak' = [streak EXCEPT ![ip] = Streak(ip, now) + 1]
            /\ last_failure' = [last_failure EXCEPT ![ip] = now]
       ELSE /\ failures' = [failures EXCEPT ![ip] = record_success(checked)]
            /\ \E audit \in HandlerAudit :
                  auth_response' = answer(200, FALSE, 0, audit)
            /\ streak' = [streak EXCEPT ![ip] = 0]
            /\ UNCHANGED last_failure

\* web_app.verify_credentials
WebRequest(ip, credentials) ==
    /\ auth_response' =
          [ip |-> ip, via |-> "web", credentials |-> credentials,
           status |-> IF credentials = "right" THEN 200 ELSE 401,
           locked |-> FALSE, retry_after |-> NoRetryAfter, counted |-> 0,
           audit |-> "none"]
    /\ UNCHANGED <<failures, streak, last_failure>>

AuthRequest ==
    /\ \E ip \in IPs, credentials \in Credentials :
          \/ ProviderRequest(ip, credentials)
          \/ WebRequest(ip, credentials)
    /\ UNCHANGED <<now, clock_steps>>
    /\ UNCHANGED <<pipelineVars, uploaderVars, watcherVars, classifyVars, moreVars>>

\* the clock moves on: by a second, or to the last second of a lockout
ClockSteps == {1, lockout_seconds - 1}

AuthClock ==
    /\ clock_steps < MaxClockSteps
    /\ clock_steps' = clock_steps + 1
    /\ \E d \in ClockSteps : now' = now + d
    /\ UNCHANGED <<failures, auth_response, streak, last_failure>>
    /\ UNCHANGED <<pipelineVars, uploaderVars, watcherVars, classifyVars, moreVars>>

AuthInit ==
    /\ failures = [ip \in IPs |-> NoRecord]
    /\ now = 1
    /\ clock_steps = 0
    /\ auth_response = NoResponse
    /\ streak = [ip \in IPs |-> 0]
    /\ last_failure = [ip \in IPs |-> 0]

\* ------------------------------------------------------------ file watcher
\* The scanner writes PDFs into scanner_output; a FileWatcher hands a path to
\* its callback once FileStabilityChecker.is_file_stable answers True for it.
\* Kiosk mode starts two FileWatcher objects on the same folder, every other
\* mode one.  The callback leaves the file where it is.
Paths == 1..MaxPath
Sizes == 0..MaxSize
Absent == 0 - 1
Watchers == 1..MaxWatcher
Modes == {"realtime", "polling"}
NoPass == [w |-> 0, released |-> {}, readable |-> {}]

EnoughChecksEarly(count) == count >= stability_checks - 1

\* the test of the count in is_file_stable
EnoughChecks(count) == count >= stability_checks

\* FileStabilityChecker.is_file_stable for one path: size and count are the
\* path's entries (Absent, 0 when it has none), current is the size of the
\* file (Absent when it does not exist), readable the outcome of the read
is_file_stable(size, count, current, readable) ==
    IF current = Absent
    THEN [size |-> size, count |-> count, stable |-> FALSE]
    ELSE IF size = Absent \/ size # current
    THEN [size |-> current, count |-> 1, stable |-> FALSE]
    ELSE IF EnoughChecks(count + 1) /\ readable
    THEN [size |-> Absent, count |-> 0, stable |-> TRUE]
    ELSE [size |-> size, count |-> count + 1, stable |-> FALSE]

\* the sizes a checker has observed at a path since it last released it
Observe(history, current, stable) ==
    IF current = Absent THEN history
    ELSE IF stable THEN <<>>
    ELSE IF Len(history) >= MaxCount THEN Append(Tail(history), current)
    ELSE Append(history, current)

\* asyncio.get_running_loop: only the thread that runs uvicorn's loop has one
InEventLoop(thread) == thread = "main"

\* QRScanProcessor._process_new_file called on a thread: asyncio.create_task
\* schedules the task on the running loop and raises RuntimeError without one
_process_new_file(scheduled, p, thread) ==
    IF InEventLoop(thread)
    THEN [raised |-> FALSE, tasks |-> scheduled \cup {p}]
    ELSE [raised |-> TRUE, tasks |-> scheduled]

\* the outcomes of the 1-byte read, per path, that a pass of watcher w may meet
Readables(w) ==
    {r \in SUBSET Paths : \A p \in Paths : check_counts[w][p] >= MaxCount => p \in r}

\* one pass of watcher w over the paths in checked: is_file_stable for each,
\* the callback for each path it answers True for
Pass(w, checked, readable) ==
    LET result == [p \in Paths |->
                     is_file_stable(file_sizes[w][p], check_counts[w][p],
                                    inbox[p], p \in readable)]
        released == {p \in checked : result[p].stable}
    IN /\ \A p \in released : callbacks[p] < MaxCallbacks
       /\ file_sizes' = [file_sizes EXCEPT ![w] =
             [p \in Paths |-> IF p \in checked THEN result[p].size ELSE @[p]]]
       /\ check_counts' = [check_counts EXCEPT ![w] =
             [p \in Paths |-> IF p \in checked THEN result[p].count ELSE @[p]]]
       /\ observed' = [observed EXCEPT ![w] =
             [p \in Paths |-> IF p \in checked
                              THEN Observe(@[p], inbox[p], result[p].stable)
                              ELSE @[p]]]
       /\ callbacks' = [p \in Paths |->
                          IF p \in released THEN callbacks[p] + 1 ELSE callbacks[p]]
       /\ tasks' = UNION ({tasks} \cup
                          {_process_new_file(tasks, p, "watcher").tasks : p \in released})
       /\ last_pass' = [w |-> w, released |-> released,
                        readable |-> readable \cap checked]

\* PDFEventHandler.check_pending_files, called by stability_check_loop
CheckPendingFiles(w) ==
    /\ mode = "realtime"
    /\ w \in running
    /\ \E readable \in Readables(w) :
          /\ Pass(w, pending_files[w], readable)
          /\ pending_files' = [pending_files EXCEPT ![w] = @ \ last_pass'.released]
    /\ UNCHANGED <<mode, running, inbox, processed_files>>
    /\ UNCHANGED <<pipelineVars, uploaderVars, authVars, classifyVars, moreVars>>

\* one round of polling_loop
PollingRound(w) ==
    /\ mode = "polling"
    /\ w \in running
    /\ \E readable \in Readables(w) :
          /\ Pass(w, {p \in Paths : inbox[p] # Absent} \ processed_files[w], readable)
          /\ processed_files' = [processed_files EXCEPT ![w] =
                {p \in @ \cup last_pass'.released : inbox[p] # Absent}]
    /\ UNCHANGED <<mode, running, inbox, pending_files>>
    /\ UNCHANGED <<pipelineVars, uploaderVars, authVars, classifyVars, moreVars>>

\* PDFEventHandler.on_created and on_modified, in every running watcher
OnEvent(p) ==
    IF mode = "realtime"
    THEN pending_files' = [w \in Watchers |->
                              IF w \in running THEN pending_files[w] \cup {p}
                              ELSE pending_files[w]]
    ELSE UNCHANGED pending_files

\* the scanner creates the file at p or writes more of it
WriteFile(p, size) ==
    /\ inbox[p] # size
    /\ inbox' = [inbox EXCEPT ![p] = size]
    /\ callbacks' = [callbacks EXCEPT ![p] = IF inbox[p] = Absent THEN 0 ELSE @]
    /\ OnEvent(p)
    /\ UNCHANGED <<mode, running, file_sizes, check_counts, processed_files, observed,
                   last_pass, tasks>>
    /\ UNCHANGED <<pipelineVars, uploaderVars, authVars, classifyVars, moreVars>>

\* a modify event for a file whose size stays the same
TouchFile(p) ==
    /\ inbox[p] # Absent
    /\ mode = "realtime"
    /\ OnEvent(p)
    /\ UNCHANGED <<mode, running, inbox, file_sizes, check_counts, processed_files,
                   observed, last_pass, callbacks, tasks>>
    /\ UNCHANGED <<pipelineVars, uploaderVars, authVars, classifyVars, moreVars>>

\* the file at p is taken out of the folder; the handler has no on_deleted
RemoveFile(p) ==
    /\ inbox[p] # Absent
    /\ inbox' = [inbox EXCEPT ![p] = Absent]
    /\ UNCHANGED <<mode, running, file_sizes, check_counts, pending_files,
                   processed_files, observed, last_pass, callbacks, tasks>>
    /\ UNCHANGED <<pipelineVars, uploaderVars, authVars, classifyVars, moreVars>>

\* a turn of the event loop: the scheduled _process_new_file_async tasks run,
\* each moving its file out of scanner_output, to pending or to error
EventLoopTurn ==
    /\ inbox' = [p \in Paths |-> IF p \in tasks THEN Absent ELSE inbox[p]]
    /\ tasks' = {}
    /\ UNCHANGED <<mode, running, file_sizes, check_counts, pending_files,
                   processed_files, observed, last_pass, callbacks>>
    /\ UNCHANGED <<pipelineVars, uploaderVars, authVars, classifyVars, moreVars>>

WatcherIdle ==
    /\ tasks = {}
    /\ inbox = [p \in Paths |-> Absent]
    /\ file_sizes = [w \in Watchers |-> [p \in Paths |-> Absent]]
    /\ check_counts = [w \in Watchers |-> [p \in Paths |-> 0]]
    /\ pending_files = [w \in Watchers |-> {}]
    /\ processed_files = [w \in Watchers |-> {}]
    /\ observed = [w \in Watchers |-> [p \in Paths |-> <<>>]]
    /\ last_pass = NoPass
    /\ callbacks = [p \in Paths |-> 0]

\* before FileWatcher.start
WatcherInit ==
    /\ mode = "realtime"
    /\ running = {}
    /\ WatcherIdle

\* after the start of the one FileWatcher of QRScanProcessor.start or of the
\* two of kiosk mode, in either mode of the configuration
WatcherStarted ==
    /\ mode \in Modes
    /\ running \in {{1}, Watchers}
    /\ WatcherIdle

\* ------------------------------------------------------------ classification
\* _process_new_file_async with all three results of the QR read.  A file of
\* the scanner is modelled by its name and its pages; error/<yyyymmdd>/ is the
\* folder of the day the model runs in.
Scans == 1..MaxScan
NoTransportNo == 0
QRResults ==
    [status : {"success"}, transport_no : IDS]
        \cup [status : {"multiple", "error"}, transport_no : {NoTransportNo}]
NoClassification ==
    [name |-> 0, status |-> "none", transport_no |-> NoTransportNo, pages |-> NoFile]
EmptyErrorDir == [n \in Scans |-> <<>>]

LeftInPlace(dir, name) == dir

\* shutil.move takes the file out of the folder it was in
MovedAway(dir, name) == [dir EXCEPT ![name] = NoFile]

\* the name _move_to_error gives a new file in the directory d of one stem
ErrorName(d) ==
    IF <<>> \in DOMAIN d THEN <<FreeCounter(d, <<>>)>> ELSE <<>>

\* the message _process_new_file_async passes to _move_to_error
ErrorMessage(status) ==
    IF status = "multiple"
    THEN IF multiple_qr_action = "error" THEN "multiple" ELSE "manual selection"
    ELSE "not found"

\* the scanner writes a file into its output folder
ScanArrives ==
    /\ arrived < MaxArrivals
    /\ arrived' = arrived + 1
    /\ \E name \in Scans, c \in ScanContents :
          /\ scanner_output[name] = NoFile
          /\ scanner_output' = [scanner_output EXCEPT ![name] = c]
    /\ UNCHANGED <<docs, pendingDated, pending, merged, uploaded, error, error_info,
                   upload_queue, processing, paused, phase, todo, lastReq, lastMerge,
                   lastUpload, idle_for>>
    /\ UNCHANGED <<errorDated, errorDatedInfo, multiple_qr_action, classified>>
    /\ UNCHANGED <<uploaderVars, authVars, watcherVars, moreVars>>

\* _process_new_file_async for the file name, whose QR read returns result
Classify(name, result) ==
    LET file == scanner_output[name]
        x == result.transport_no
        suffix == ErrorName(errorDated[name])
    IN /\ file # NoFile
       /\ IF result.status = "success"
          THEN /\ docs' = Append(docs, [transport_no |-> x, status |-> "PENDING"])
               /\ pendingDated' = [pendingDated EXCEPT ![x] = Put(@, PendingName(@), file)]
               /\ UNCHANGED <<errorDated, errorDatedInfo>>
          ELSE /\ docs' = Append(docs, [transport_no |-> NoTransportNo, status |-> "ERROR"])
               /\ errorDated' = [errorDated EXCEPT ![name] = Put(@, suffix, file)]
               /\ errorDatedInfo' = [errorDatedInfo EXCEPT ![name] =
                     Put(@, suffix, ErrorSidecar(ErrorMessage(result.status)))]
               /\ UNCHANGED pendingDated
       /\ scanner_output' = MovedAway(scanner_output, name)
       /\ classified' = [name |-> name, status |-> result.status,
                         transport_no |-> x, pages |-> file]
       /\ idle_for' = 0
       /\ UNCHANGED <<pending, merged, uploaded, error, error_info, upload_queue,
                      processing, paused, phase, todo, lastReq, lastMerge, lastUpload,
                      arrived>>
       /\ UNCHANGED multiple_qr_action
       /\ UNCHANGED <<uploaderVars, authVars, watcherVars, moreVars>>

ClassifyIdle ==
    /\ scanner_output = [n \in Scans |-> NoFile]
    /\ errorDated = EmptyErrorDir
    /\ errorDatedInfo = EmptyErrorDir
    /\ classified = NoClassification

\* the default of the configuration
ClassifyInit ==
    /\ multiple_qr_action = "manual"
    /\ ClassifyIdle

\* either policy for a file with several valid codes
ClassifyConfigured ==
    /\ multiple_qr_action \in {"error", "manual"}
    /\ ClassifyIdle

\* ------------------------------------------------------------ classification tasks
\* _process_new_file_async as a coroutine of the event loop.  A coroutine
\* runs alone on the loop from one suspension to the next; the QR read runs
\* on a thread of the worker pool while the coroutine is suspended.
NoJob ==
    [pc |-> "none", status |-> "none", transport_no |-> NoTransportNo,
     dest |-> <<>>, doc |-> 0]

YieldsAlways(point) == TRUE

\* whether the coroutine is suspended at an await: awaiting the future of
\* run_in_executor suspends it; awaiting _move_to_pending or _move_to_error,
\* coroutines with no await inside, runs them to their end without suspension
YieldsAt(point) == point = "run_in_executor"

\* the loop can run a step of task name
LoopFree(name) == loop_owner \in {0, name}

\* the task starts: the document is registered, the QR read is handed to the
\* worker pool and the coroutine waits for it
StartJob(name) ==
    /\ scanner_output[name] # NoFile
    /\ jobs[name].pc = "none"
    /\ LoopFree(name)
    /\ docs' = Append(docs, [transport_no |-> NoTransportNo, status |-> "PROCESSING"])
    /\ jobs' = [jobs EXCEPT ![name] = [NoJob EXCEPT !.pc = "reading",
                                                    !.doc = Len(docs) + 1]]
    /\ loop_owner' = IF YieldsAt("run_in_executor") THEN 0 ELSE name
    /\ UNCHANGED <<pendingDated, pending, merged, uploaded, error, error_info,
                   upload_queue, processing, paused, phase, todo, lastReq, lastMerge,
                   lastUpload, idle_for, arrived>>
    /\ UNCHANGED <<classifyVars, uploaderVars, authVars, watcherVars>>
    /\ UNCHANGED <<qrVars, commandVars, registryVars, healthVars, orderVars>>

\* a worker thread returns the result of process_document
ReadDone(name, result) ==
    /\ jobs[name].pc = "reading"
    /\ jobs' = [jobs EXCEPT ![name] = [@ EXCEPT !.pc = "read",
                                                !.status = result.status,
                                                !.transport_no = result.transport_no]]
    /\ UNCHANGED <<loop_owner, pipelineVars, classifyVars, uploaderVars, authVars,
                   watcherVars>>
    /\ UNCHANGED <<qrVars, commandVars, registryVars, healthVars, orderVars>>

\* the coroutine is resumed and runs up to the test of the destination name
\* in _move_to_pending or _move_to_error
ChooseName(name) ==
    LET job == jobs[name]
    IN /\ job.pc = "read"
       /\ LoopFree(name)
       /\ jobs' = [jobs EXCEPT ![name] =
             [job EXCEPT !.pc = "moving",
                         !.dest = IF job.status = "success"
                                  THEN PendingName(pendingDated[job.transport_no])
                                  ELSE ErrorName(errorDated[name])]]
       /\ loop_owner' = IF YieldsAt("_move_to_pending") THEN 0 ELSE name
       /\ UNCHANGED <<pipelineVars, classifyVars, uploaderVars, authVars, watcherVars>>
       /\ UNCHANGED <<qrVars, commandVars, registryVars, healthVars, orderVars>>

\* shutil.move to the name chosen and the rest of the coroutine.  A move to
\* pending that raises (moved = FALSE) takes the coroutine to its except
\* clause: the document is marked ERROR and the file moved to error, and
\* update_activity is not reached
MoveFile(name, moved) ==
    LET job == jobs[name]
        file == scanner_output[name]
        x == job.transport_no
        to_pending == job.status = "success" /\ moved
        suffix == IF job.status = "success" THEN ErrorName(errorDated[name])
                  ELSE job.dest
        message == IF job.status = "success" THEN "exception"
                   ELSE ErrorMessage(job.status)
    IN /\ job.pc = "moving"
       /\ LoopFree(name)
       /\ job.status # "success" => moved
       /\ IF to_pending
          THEN /\ docs' = [docs EXCEPT ![job.doc] =
                             [transport_no |-> x, status |-> "PENDING"]]
               /\ pendingDated' = [pendingDated EXCEPT ![x] = Put(@, job.dest, file)]
               /\ UNCHANGED <<errorDated, errorDatedInfo>>
          ELSE /\ docs' = [docs EXCEPT ![job.doc] =
                             [transport_no |-> x, status |-> "ERROR"]]
               /\ errorDated' = [errorDated EXCEPT ![name] = Put(@, suffix, file)]
               /\ errorDatedInfo' = [errorDatedInfo EXCEPT ![name] =
                     Put(@, suffix, ErrorSidecar(message))]
               /\ UNCHANGED pendingDated
       /\ scanner_output' = MovedAway(scanner_output, name)
       /\ classified' = [name |-> name,
                         status |-> IF moved THEN job.status ELSE "exception",
                         transport_no |-> x, pages |-> file]
       /\ idle_for' = IF moved THEN 0 ELSE idle_for
       /\ jobs' = [jobs EXCEPT ![name] = NoJob]
       /\ loop_owner' = 0
       /\ UNCHANGED <<pending, merged, uploaded, error, error_info, upload_queue,
                      processing, paused, phase, todo, lastReq, lastMerge, lastUpload,
                      arrived>>
       /\ UNCHANGED multiple_qr_action
       /\ UNCHANGED <<uploaderVars, authVars, watcherVars>>
       /\ UNCHANGED <<qrVars, commandVars, registryVars, healthVars, orderVars>>

PoolInit ==
    /\ jobs = [n \in Scans |-> NoJob]
    /\ loop_owner = 0

\* ------------------------------------------------------------ QR classification
\* A document is the sequence of its pages, a page the list of the codes the
\* decoder reports on it.  The codes 1..MaxId match the pattern of a transport
\* number, InvalidCode does not.
InvalidCode == 0
Codes == IDS \cup {InvalidCode}
PageCodes == SeqsUpTo(Codes, MaxPageCodes)
Documents == SeqsUpTo(PageCodes, MaxDocPages)
NoQRResult == [status |-> "none", transport_no |-> NoTransportNo, valid_qr_codes |-> <<>>]

\* pattern.match(code)
Matches(code) == code \in IDS

\* all_codes after the loop over the pages of read_from_pdf
RECURSIVE ExtendAll(_)
ExtendAll(doc) ==
    IF doc = <<>> THEN <<>> ELSE Head(doc) \o ExtendAll(Tail(doc))

keep_list(codes) == codes

\* list(set(codes))
list_set(codes) == Dedup(codes, {})

\* QRReader.read_from_pdf: the valid codes it returns
read_from_pdf(doc) ==
    LET all_codes == list_set(ExtendAll(doc))
    IN list_set(SelectSeq(all_codes, Matches))

\* QRProcessor.process_document; failed is an exception of the conversion
process_document(doc, failed) ==
    IF failed
    THEN [status |-> "error", transport_no |-> NoTransportNo, valid_qr_codes |-> <<>>]
    ELSE LET valid_codes == read_from_pdf(doc)
         IN IF valid_codes = <<>>
            THEN [status |-> "error", transport_no |-> NoTransportNo,
                  valid_qr_codes |-> valid_codes]
            ELSE IF Len(valid_codes) = 1
            THEN [status |-> "success", transport_no |-> valid_codes[1],
                  valid_qr_codes |-> valid_codes]
            ELSE [status |-> "multiple", transport_no |-> NoTransportNo,
                  valid_qr_codes |-> valid_codes]

ProcessDocument ==
    /\ \E doc \in Documents, failed \in BOOLEAN :
          /\ qr_document' = [pages |-> doc, failed |-> failed]
          /\ qr_result' = process_document(doc, failed)
    /\ UNCHANGED <<coreVars, commandVars, registryVars, healthVars>>

QRInit ==
    /\ qr_document = [pages |-> <<>>, failed |-> FALSE]
    /\ qr_result = NoQRResult

\* ------------------------------------------------------------ registry
\* A JSON object is a function from its keys to its values.
RegistryIds == {"a", "b"}
Versions == 1..MaxVersion

\* the fields of the Instance dataclass and of the InstanceAuth dataclass
InstanceFields == {"id", "label", "baseUrl", "role", "auth"}
AuthFields ==
    {"type", "username", "password", "token", "refresh_token", "cert_path",
     "key_path", "sso_provider", "redirect_url", "metadata"}

\* the defaults of InstanceAuth, metadata after __post_init__
AuthDefault(field) ==
    IF field = "type" THEN "basic" ELSE IF field = "metadata" THEN "{}" ELSE ""

\* auth descriptors a registry file can hold: a known or an unknown type,
\* with or without a member InstanceAuth has no field for
AuthDicts ==
    {[k \in {"type", "token"} \cup more |-> IF k = "type" THEN type ELSE "x"] :
        type \in {"basic", "oauth2"}, more \in {{}, {"client_id"}}}

\* instance objects a registry file can hold, with or without a member
\* Instance has no field for
Items(id) ==
    {[k \in InstanceFields \cup more |->
         IF k = "id" THEN id ELSE IF k = "auth" THEN auth ELSE "x"] :
        auth \in AuthDicts, more \in {{}, {"tags"}}}

ItemLists ==
    {<<>>} \cup {<<i>> : i \in UNION {Items(id) : id \in RegistryIds}}
           \cup {<<i, j>> : i \in Items("a"), j \in Items("b")}

RegistryFiles == [version : Versions, instances : ItemLists]

\* InstanceAuth(**auth_data): TypeError on a keyword that is no field
InstanceAuth(auth_data) ==
    IF DOMAIN auth_data \subseteq AuthFields
    THEN [raised |-> FALSE,
          value |-> [f \in AuthFields |->
                       IF f \in DOMAIN auth_data THEN auth_data[f] ELSE AuthDefault(f)]]
    ELSE [raised |-> TRUE, value |-> <<>>]

\* Instance.from_dict
from_dict(data) ==
    LET auth == InstanceAuth(data["auth"])
    IN IF auth.raised THEN [raised |-> TRUE, value |-> <<>>]
       ELSE [raised |-> FALSE,
             value |-> [k \in InstanceFields |->
                          IF k = "auth" THEN auth.value ELSE data[k]]]

\* Instance.to_dict
to_dict(instance) ==
    [k \in InstanceFields |->
        IF k = "auth" THEN [f \in AuthFields |-> instance.auth[f]] ELSE instance[k]]

\* instances[instance.id] = instance
Upsert(instances, instance) ==
    IF \E i \in DOMAIN instances : instances[i].id = instance.id
    THEN [i \in DOMAIN instances |->
            IF instances[i].id = instance.id THEN instance ELSE instances[i]]
    ELSE Append(instances, instance)

RECURSIVE ParseItems(_, _)
ParseItems(items, instances) ==
    IF items = <<>> THEN [raised |-> FALSE, value |-> instances]
    ELSE LET instance == from_dict(Head(items))
         IN IF instance.raised THEN [raised |-> TRUE, value |-> <<>>]
            ELSE ParseItems(Tail(items), Upsert(instances, instance.value))

\* RegistryManager._parse_registry: an exception of any item empties the result
_parse_registry(data) ==
    LET parsed == ParseItems(data.instances, <<>>)
    IN IF parsed.raised THEN <<>> ELSE parsed.value

\* RegistryManager.load with a local file only
LoadRegistry ==
    /\ registry_phase \in {"file", "saved"}
    /\ registry_instances' = _parse_registry(registry_file)
    /\ registry_version' = registry_file.version
    /\ first_load' = IF registry_phase = "file" THEN registry_instances' ELSE first_load
    /\ registry_phase' = IF registry_phase = "file" THEN "loaded" ELSE "reloaded"
    /\ UNCHANGED <<registry_source, registry_file, update_response>>
    /\ UNCHANGED <<coreVars, qrVars, commandVars, healthVars>>

\* RegistryManager.save("local")
SaveRegistry ==
    /\ registry_phase = "loaded"
    /\ registry_file' =
          [version |-> registry_version,
           instances |-> [i \in DOMAIN registry_instances |->
                            to_dict(registry_instances[i])]]
    /\ registry_phase' = "saved"
    /\ UNCHANGED <<registry_source, registry_instances, registry_version, first_load,
                   update_response>>
    /\ UNCHANGED <<coreVars, qrVars, commandVars, healthVars>>

\* the loop of update_instances over the request body: add_instance for each
\* record until from_dict raises
RECURSIVE AddInstances(_, _)
AddInstances(items, instances) ==
    IF items = <<>> THEN [raised |-> FALSE, value |-> instances]
    ELSE LET instance == from_dict(Head(items))
         IN IF instance.raised THEN [raised |-> TRUE, value |-> instances]
            ELSE AddInstances(Tail(items), Upsert(instances, instance.value))

SaveTargets == {"local", "remote"}

\* RegistryManager.save: no remote_url is configured, and writing the local
\* file works or fails (written)
save(target, written) == target = "local" /\ written

\* PUT /api/admin/instances?target=...: _instances is cleared, then filled
\* from the body, then saved
UpdateInstances(body, target, written) ==
    LET added == AddInstances(body, <<>>)
        success == ~added.raised /\ save(target, written)
    IN /\ registry_phase = "loaded"
       /\ registry_instances' = added.value
       /\ registry_file' =
             IF success
             THEN [version |-> registry_version,
                   instances |-> [i \in DOMAIN added.value |-> to_dict(added.value[i])]]
             ELSE registry_file
       /\ update_response' = IF success THEN 200 ELSE 500
       /\ UNCHANGED <<registry_source, registry_version, first_load, registry_phase>>
       /\ UNCHANGED <<coreVars, qrVars, commandVars, healthVars>>

RegistryAt(file) ==
    /\ registry_source = file
    /\ registry_file = file
    /\ registry_instances = <<>>
    /\ registry_version = 1
    /\ first_load = <<>>
    /\ registry_phase = "file"
    /\ update_response = 0

RegistryInit == RegistryAt([version |-> 1, instances |-> <<>>])

RegistryWritten == \E file \in RegistryFiles : RegistryAt(file)

\* ------------------------------------------------------------ instance health
StatusCodes == {401, 404, 500, 503}

\* what requests.request, raise_for_status and response.json can meet: a
\* status object, a timeout, a refused connection, a status code that is not
\* 2xx, a body that is not JSON, JSON null, a JSON object that is no status
Outcomes ==
    {[kind |-> k, code |-> 0] :
        k \in {"ok", "timeout", "refused", "not_json", "null", "other_object"}}
    \cup {[kind |-> "http", code |-> c] : c \in StatusCodes}

\* InstanceClient._request: the JSON of the response, None after any exception
_request(outcome) ==
    IF outcome.kind = "ok" THEN "status object"
    ELSE IF outcome.kind = "other_object" THEN "object"
    ELSE "None"

\* InstanceClient.get_health
get_health(instance, outcome) ==
    LET status == _request(outcome)
    IN [online |-> status # "None", instance_id |-> instance.id,
        label |-> instance.label, baseUrl |-> instance.baseUrl,
        role |-> instance.role, status |-> status]

\* GET /api/admin/instances/health
GetAllInstancesHealth ==
    \E reload \in BOOLEAN :
        LET instances == IF reload THEN _parse_registry(registry_file)
                         ELSE registry_instances
        IN \E met \in [DOMAIN instances -> Outcomes] :
              /\ registry_instances' = instances
              /\ registry_version' = IF reload THEN registry_file.version
                                     ELSE registry_version
              /\ probes' = met
              /\ health_list' = [i \in DOMAIN instances |->
                                   get_health(instances[i], met[i])]
              /\ health_done' = TRUE
              /\ UNCHANGED <<registry_source, registry_file, first_load, registry_phase,
                             update_response>>
              /\ UNCHANGED <<coreVars, qrVars, commandVars>>

HealthInit ==
    /\ probes = <<>>
    /\ health_list = <<>>
    /\ health_done = FALSE

\* an admin instance after create_admin_app has loaded a registry file
RegistryLoaded ==
    \E file \in RegistryFiles :
        /\ registry_source = file
        /\ registry_file = file
        /\ registry_instances = _parse_registry(file)
        /\ registry_version = file.version
        /\ first_load = registry_instances
        /\ registry_phase = "loaded"
        /\ update_response = 0

\* ------------------------------------------------------------ standard API
CommandTypes ==
    {"RUN_BATCH", "PAUSE", "RESUME", "RESCAN_ERROR", "UPDATE_CONFIG",
     "RESTART_SERVICE", "SHUTDOWN"}

UserNames == {"admin", "operator"}

\* what get_current_user returns and the handler receives as username
AuthResults == [kind : {"AuthResult"}, username : UserNames, ip : IPs]

\* json.dumps accepts strings, not dataclass instances
Serializable(user) == user.kind = "str"

\* AuditLogger.log: the entry it builds and writes as one JSON line;
\* json.dumps raises TypeError on a value it cannot serialize
log(entries, user, action, payload, result) ==
    LET entry == [user |-> user, action |-> action, target_instance_id |-> "None",
                  payload_hash |-> IF payload THEN "sha256" ELSE "None",
                  result |-> result, detail |-> "None"]
    IN IF Serializable(user)
       THEN [raised |-> FALSE, entries |-> Append(entries, entry)]
       ELSE [raised |-> TRUE, entries |-> entries]

\* audit.logger.audit_log: nothing when the global is None
audit_log(entries, user, action, payload, result) ==
    IF standard_api.audit_logger
    THEN log(entries, user, action, payload, result)
    ELSE [raised |-> FALSE, entries |-> entries]

\* the branches of execute_command that raise inside its try block:
\* QRScanProcessor has neither run_batch nor config_manager, and the
\* HTTPException for an unknown type is an Exception
Raises(type) == type \in {"RUN_BATCH", "UPDATE_CONFIG"} \/ type = "SHUTDOWN"

\* "success" of the answer of a branch that returns
Succeeds(type) == type \in {"PAUSE", "RESUME", "RESCAN_ERROR"}

\* POST /api/command
ExecuteCommand ==
    \E type \in CommandTypes, auth \in AuthResults, payload \in BOOLEAN :
        LET action == type
            answer(http, success) ==
                [type |-> type, username |-> auth.username, ip |-> auth.ip,
                 payload |-> payload, http |-> http, success |-> success]
            first == audit_log(audit_entries, auth, action, payload, "SUCCESS")
            second == audit_log(first.entries, auth, action, payload, "ERROR")
            untouched == <<docs, fsVars, upload_queue, processing, phase, todo,
                           lastReq, lastMerge, lastUpload, idle_for, arrived>>
        IN /\ commands < MaxCommands
           /\ commands' = commands + 1
           /\ UNCHANGED <<standard_api, untouched, besideBatchVars>>
           /\ IF ~standard_api.processor
              THEN /\ command_response' = answer(503, FALSE)
                   /\ UNCHANGED <<audit_entries, paused, batch_response>>
              ELSE IF first.raised
              THEN /\ command_response' = answer(500, FALSE)
                   /\ UNCHANGED <<audit_entries, paused, batch_response>>
              ELSE IF Raises(type)
              THEN /\ command_response' =
                         IF second.raised THEN answer(500, FALSE) ELSE answer(200, FALSE)
                   /\ audit_entries' = second.entries
                   /\ batch_response' = IF type = "RUN_BATCH" /\ ~second.raised
                                        THEN Answer("RUN_BATCH", FALSE)
                                        ELSE batch_response
                   /\ UNCHANGED paused
              ELSE /\ command_response' = answer(200, Succeeds(type))
                   /\ audit_entries' = first.entries
                   /\ paused' = IF type = "PAUSE" THEN TRUE
                                ELSE IF type = "RESUME" THEN FALSE ELSE paused
                   /\ UNCHANGED batch_response

\* the embedding application has called init_standard_api or not, and
\* audit.logger.init_audit_logger or not
ApiStarted ==
    /\ batch_response = NoBatchResponse
    /\ standard_api \in [processor : BOOLEAN, audit_logger : BOOLEAN]
    /\ ApiInit

\* ------------------------------------------------------------ specification
\* the pipeline before its first file, but for pending/<yyyymmdd>/
PipelineIdle ==
    /\ docs = <<>>
    /\ pending = EmptyDir
    /\ merged = NoFiles
    /\ uploaded = NoFiles
    /\ error = NoFiles
    /\ error_info = NoSidecars
    /\ upload_queue = <<>>
    /\ processing = FALSE
    /\ paused = FALSE
    /\ phase = [c \in Callers |-> "idle"]
    /\ todo = [c \in Callers |-> <<>>]
    /\ lastReq = "none"
    /\ lastMerge = [x \in IDS |-> NoMerge]
    /\ lastUpload = "none"
    /\ idle_for = 0
    /\ arrived = 0

PipelineInit ==
    /\ pendingDated = EmptyDir
    /\ PipelineIdle

Init ==
    /\ PipelineInit
    /\ UploaderInit
    /\ AuthInit
    /\ WatcherInit
    /\ ClassifyInit
    /\ QRInit
    /\ PoolInit
    /\ OrderInit
    /\ CommandInit
    /\ RegistryInit
    /\ HealthInit

Next ==
    \/ ProcessNewFile
    \/ CleanupFolders
    \/ TriggerBatch
    \/ BeginUploadStep
    \/ UploadStep
    \/ EndCycle
    \/ Pause
    \/ Resume
    \/ RunBatchCommand
    \/ Tick

Spec == Init /\ [][Next]_vars

\* the uploader on its own, called any number of times with any artifact
NextUploader == UploadFile

SpecUploader == Init /\ [][NextUploader]_vars

NextAuth ==
    \/ AuthRequest
    \/ AuthClock

SpecAuth == Init /\ [][NextAuth]_vars

NextWatcher ==
    \/ \E p \in Paths, size \in Sizes : WriteFile(p, size)
    \/ \E p \in Paths : TouchFile(p)
    \/ \E p \in Paths : RemoveFile(p)
    \/ \E w \in Watchers : CheckPendingFiles(w)
    \/ \E w \in Watchers : PollingRound(w)
    \/ EventLoopTurn

InitWatcher ==
    /\ PipelineInit
    /\ UploaderInit
    /\ AuthInit
    /\ WatcherStarted
    /\ ClassifyInit
    /\ QRInit
    /\ PoolInit
    /\ OrderInit
    /\ CommandInit
    /\ RegistryInit
    /\ HealthInit

SpecWatcher == InitWatcher /\ [][NextWatcher]_vars

\* the stability loop and the polling loop are threads that take their next
\* pass after a sleep, and the event loop keeps running its tasks
SpecWatcherLive ==
    /\ SpecWatcher
    /\ \A w \in Watchers : WF_vars(CheckPendingFiles(w)) /\ WF_vars(PollingRound(w))
    /\ WF_vars(EventLoopTurn)

\* files an earlier run left in the dated pending folder of one identifier
LeftoverNames == {<<>>, <<1>>, <<2>>}
LeftoverDirs == {[sfx \in N |-> <<1>>] : N \in SUBSET LeftoverNames}

InitClassify ==
    /\ PipelineIdle
    /\ \E x \in IDS, d \in LeftoverDirs : pendingDated = [EmptyDir EXCEPT ![x] = d]
    /\ UploaderInit
    /\ AuthInit
    /\ WatcherInit
    /\ ClassifyConfigured
    /\ QRInit
    /\ PoolInit
    /\ OrderInit
    /\ CommandInit
    /\ RegistryInit
    /\ HealthInit

NextClassify ==
    \/ ScanArrives
    \/ \E name \in Scans, result \in QRResults : Classify(name, result)

SpecClassify == InitClassify /\ [][NextClassify]_vars

NextPool ==
    \/ ScanArrives
    \/ \E name \in Scans : StartJob(name)
    \/ \E name \in Scans, result \in QRResults : ReadDone(name, result)
    \/ \E name \in Scans : ChooseName(name)
    \/ \E name \in Scans, moved \in BOOLEAN : MoveFile(name, moved)

SpecPool == Init /\ [][NextPool]_vars

\* the classification tasks next to the scheduler in idle mode; the
\* scheduler's cycle is a coroutine of the same loop
NextArrivals ==
    \/ NextPool
    \/ loop_owner = 0 /\ Tick
    \/ loop_owner = 0 /\ BeginUploadStep
    \/ loop_owner = 0 /\ EndCycle

SpecArrivals == Init /\ [][NextArrivals]_vars

InitOrder ==
    /\ PipelineInit
    /\ UploaderInit
    /\ AuthInit
    /\ WatcherInit
    /\ ClassifyInit
    /\ QRInit
    /\ PoolInit
    /\ OrderInputs
    /\ CommandInit
    /\ RegistryInit
    /\ HealthInit

NextOrder == MergeInputs

SpecOrder == InitOrder /\ [][NextOrder]_vars

NextQR == ProcessDocument

SpecQR == Init /\ [][NextQR]_vars

InitCommand ==
    /\ PipelineInit
    /\ UploaderInit
    /\ AuthInit
    /\ WatcherInit
    /\ ClassifyInit
    /\ QRInit
    /\ PoolInit
    /\ OrderInit
    /\ ApiStarted
    /\ RegistryInit
    /\ HealthInit

NextCommand == ExecuteCommand

SpecCommand == InitCommand /\ [][NextCommand]_vars

InitRegistry ==
    /\ PipelineInit
    /\ UploaderInit
    /\ AuthInit
    /\ WatcherInit
    /\ ClassifyInit
    /\ QRInit
    /\ PoolInit
    /\ OrderInit
    /\ CommandInit
    /\ RegistryWritten
    /\ HealthInit

NextRegistry ==
    \/ LoadRegistry
    \/ SaveRegistry

SpecRegistry == InitRegistry /\ [][NextRegistry]_vars

InitHealth ==
    /\ PipelineInit
    /\ UploaderInit
    /\ AuthInit
    /\ WatcherInit
    /\ ClassifyInit
    /\ QRInit
    /\ PoolInit
    /\ OrderInit
    /\ CommandInit
    /\ RegistryLoaded
    /\ HealthInit

NextHealth == GetAllInstancesHealth

SpecHealth == InitHealth /\ [][NextHealth]_vars

\* the first request to replace the registry, made to an agent that has
\* loaded any registry file
NextAdmin ==
    /\ update_response = 0
    /\ \E body \in ItemLists, target \in SaveTargets, written \in BOOLEAN :
          UpdateInstances(body, target, written)

SpecAdmin == InitHealth /\ [][NextAdmin]_vars

\* ------------------------------------------------------------ restart
\* The folders are the only record of the pipeline's state and survive the
\* process.  An agent that is started again finds what the earlier run left,
\* the run having been stopped at any point of a cycle (between the rename
\* of a merged artifact and the unlinking of its inputs, between an upload
\* and its move): any combination of pending scans, a merged artifact and an
\* uploaded artifact of an identifier, with or without its queue row.
DiskContents == SeqsUpTo(Pages, MaxFilePages) \ {<<>>}
Artifacts == {c \in DiskContents : Dedup(c, {}) = c}
DiskNames == {<<>>, <<1>>}
PendingDirs == UNION {[N -> DiskContents \cup {InvalidPDF}] : N \in SUBSET DiskNames}
\* pending/ of a second identifier: nothing, or one scan that cannot be read
OtherPendingDirs == {<<>>, Put(<<>>, <<>>, InvalidPDF)}

InitRestart ==
    \E x \in IDS :
        /\ pendingDated = EmptyDir
        /\ \E d \in PendingDirs, e \in OtherPendingDirs :
              pending = [y \in IDS |-> IF y = x THEN d ELSE e]
        /\ \E a \in Artifacts \cup {NoFile} : merged = [NoFiles EXCEPT ![x] = a]
        /\ \E a \in Artifacts \cup {NoFile} : uploaded = [NoFiles EXCEPT ![x] = a]
        /\ error = NoFiles
        /\ error_info = NoSidecars
        /\ \/ /\ docs = <<[transport_no |-> x, status |-> "PENDING"]>>
              /\ upload_queue = <<>>
           \/ /\ docs = <<[transport_no |-> x, status |-> "MERGED"]>>
              /\ upload_queue \in {<<>>, <<[transport_no |-> x, document_id |-> 1,
                                             retry_count |-> 0, retry_wait |-> 0]>>}
        /\ processing = FALSE
        /\ paused = FALSE
        /\ phase = [c \in Callers |-> "idle"]
        /\ todo = [c \in Callers |-> <<>>]
        /\ lastReq = "none"
        /\ lastMerge = [y \in IDS |-> NoMerge]
        /\ lastUpload = "none"
        /\ idle_for = 0
        /\ arrived = MaxArrivals
        /\ UploaderInit
        /\ AuthInit
        /\ WatcherInit
        /\ ClassifyInit
        /\ QRInit
        /\ PoolInit
        /\ OrderInit
        /\ CommandInit
        /\ RegistryInit
        /\ HealthInit

NextRestart ==
    \/ TriggerBatch
    \/ BeginUploadStep
    \/ UploadStep
    \/ EndCycle
    \/ CycleRaises

SpecRestart == InitRestart /\ [][NextRestart]_vars

\* ------------------------------------------------------------ claims
\* C1: at most one cycle is inside process_batch at any time, the flag
\* _processing is set exactly while one is, and a call of process_batch that
\* finds the flag set changes nothing and leaves nothing behind that would
\* start a cycle later.
C1_SingleCycle ==
    /\ [](/\ Cardinality({c \in Callers : phase[c] # "idle"}) <= 1
          /\ processing <=> (\E c \in Callers : phase[c] # "idle"))
    /\ [][processing =>
            /\ \A c \in Callers : phase[c] = "idle" => phase'[c] = "idle"
            /\ lastMerge' = lastMerge
            /\ lastReq # "skipped" /\ lastReq' = "skipped"
                  => UNCHANGED <<docs, fsVars, processing, phase, todo>>]_vars

\* a call of process_batch was refused while a cycle is in flight
C1_Witness == lastReq = "skipped" /\ processing /\ phase["scheduler"] = "upload"

\* C2: while the agent stays paused, no file leaves the merged folder.
C2_PausedKeepsMerged ==
    [][paused /\ paused' => \A x \in IDS : merged[x] # NoFile => merged'[x] # NoFile]_vars

C5_TargetRule ==
    [][~processing /\ processing' =>
         \A x \in IDS : lastMerge'[x].target # "none" =>
            lastMerge'[x].target =
               IF {"pending", "uploaded"} \subseteq lastMerge'[x].folders THEN "merged"
               ELSE IF lastMerge'[x].folders = {"uploaded"} THEN "uploaded"
               ELSE "merged"]_vars

C7_PendingEmptyAfterCycle ==
    [][~processing /\ processing' =>
         \A x \in IDS : DOMAIN pending'[x] = {} /\ DOMAIN pendingDated'[x] = {}]_vars

\* C8: an identifier whose artifact the regrouping wrote to merged has a row
\* in the upload queue when the cycle reaches its uploads.
C8_MergedIsEnqueued ==
    [][~processing /\ processing' =>
         \A x \in IDS : lastMerge'[x].target = "merged" =>
            \E i \in DOMAIN upload_queue' : upload_queue'[i].transport_no = x]_vars

C10_RetryDelayRespected ==
    [][\A c \in Callers :
          phase[c] = "upload" /\ phase'[c] = "uploading" =>
             \A i \in DOMAIN upload_queue :
                SameRow(upload_queue[i], Head(todo[c])) /\ upload_queue[i].retry_count >= 1
                   => upload_queue[i].retry_wait = 0]_vars

\* C11: a file that is in error after its uploads failed has a sidecar that
\* records the last error and the number of attempts.
C11_SidecarHasAttempts ==
    \A x \in IDS : error[x] # NoFile =>
        {"error_message", "attempts"} \subseteq error_info[x].keys

\* the identifiers an upload attempt of caller c is in flight for
InFlight(c) ==
    IF phase[c] = "uploading" THEN {Head(todo[c]).transport_no} ELSE {}

\* C13: at no time are two upload attempts for one identifier in flight, and
\* an attempt for an identifier begins only when none for it is in flight.
C13_AttemptsNeverOverlap ==
    /\ [](\A x \in IDS : Cardinality({c \in Callers : x \in InFlight(c)}) <= 1)
    /\ [][\A c \in Callers :
            phase[c] = "upload" /\ phase'[c] = "uploading" =>
                \A d \in Callers : Head(todo'[c]).transport_no \notin InFlight(d)]_vars

\* an attempt for an identifier is in flight after an earlier attempt for it
\* returned a failure, while the other caller has been refused
C13_Witness ==
    \E c \in Callers :
        /\ phase[c] = "uploading"
        /\ Head(todo[c]).retry_count >= 1
        /\ lastReq = "skipped"

C15_SuccessClearsCounter ==
    /\ [](\A ip \in IPs :
            is_locked(failures[ip], now) => Streak(ip, now) >= limiter_max_attempts)
    /\ [][/\ now' = now
          /\ auth_response'.via = "provider"
          /\ auth_response'.status = 200
          => failures'[auth_response'.ip] = NoRecord]_vars

\* an address that had failed has been accepted and has no record left,
\* while another address is locked
C15_Witness ==
    \E ip \in IPs :
        /\ auth_response.ip = ip
        /\ auth_response.via = "provider"
        /\ auth_response.status = 200
        /\ last_failure[ip] > 0
        /\ failures[ip] = NoRecord
        /\ \E other \in IPs : other # ip /\ is_locked(failures[other], now)

\* C16: a response that refuses a request because its address is locked
\* carries the seconds left of the lockout, a positive number.
C16_LockoutCarriesSeconds ==
    auth_response.locked => auth_response.retry_after > 0

\* C17: a request to a protected endpoint that fails authentication is
\* answered 401, is written to the audit log with result FAILURE and adds one
\* to the failure counter of its address.
C17_FailureIsAuditedAndCounted ==
    auth_response.via # "none" /\ auth_response.status # 200 =>
        /\ auth_response.status = 401
        /\ auth_response.audit = "FAILURE"
        /\ auth_response.counted = 1

\* C18: for the file at a path the callback is made once, not twice.
C18_ExactlyOneCallback ==
    \A p \in Paths : callbacks[p] <= 1

\* the number of equal sizes at the end of a history
RECURSIVE TrailingRun(_)
TrailingRun(h) ==
    IF h = <<>> THEN 0
    ELSE IF Len(h) = 1 THEN 1
    ELSE IF h[Len(h)] # h[Len(h) - 1] THEN 1
    ELSE 1 + TrailingRun(SubSeq(h, 1, Len(h) - 1))

C21_SmallestFreeName ==
    [][Len(docs') = Len(docs) + 1 /\ classified'.status = "success" =>
         LET x == classified'.transport_no
             old == pendingDated[x]
             new == pendingDated'[x]
             added == DOMAIN new \ DOMAIN old
         IN /\ \A sfx \in DOMAIN old : sfx \in DOMAIN new /\ new[sfx] = old[sfx]
            /\ Cardinality(added) = 1
            /\ \A sfx \in added :
                  /\ new[sfx] = classified'.pages
                  /\ IF <<>> \notin DOMAIN old THEN sfx = <<>>
                     ELSE /\ Len(sfx) = 1
                          /\ sfx[1] >= 1
                          /\ \A m \in 1..(sfx[1] - 1) : <<m>> \in DOMAIN old]_vars

\* a file has been named <X>(1).pdf between <X>.pdf and <X>(2).pdf, which
\* were there before it
C21_Witness ==
    LET x == classified.transport_no
    IN /\ classified.status = "success"
       /\ classified.pages = <<2>>
       /\ DOMAIN pendingDated[x] = {<<>>, <<1>>, <<2>>}
       /\ pendingDated[x][<<1>>] = <<2>>
       /\ pendingDated[x][<<>>] = <<1>>
       /\ pendingDated[x][<<2>>] = <<1>>

\* the distinct codes of a document that match the pattern
DistinctValid(doc) ==
    {c \in IDS : \E i \in DOMAIN doc : \E j \in DOMAIN doc[i] : doc[i][j] = c}

\* C22: a document that was read has the result success, with the code as
\* its transport number, exactly when it holds one distinct valid code, the
\* result error exactly when it holds none, and multiple exactly when it
\* holds two or more.
C22_ClassifiedByDistinctCodes ==
    qr_result.status # "none" /\ ~qr_document.failed =>
        LET n == Cardinality(DistinctValid(qr_document.pages))
        IN /\ qr_result.status = "success" <=> n = 1
           /\ qr_result.status = "error" <=> n = 0
           /\ qr_result.status = "multiple" <=> n >= 2
           /\ qr_result.status = "success" =>
                 DistinctValid(qr_document.pages) = {qr_result.transport_no}

\* a document with the same valid code on two pages, next to a code that
\* does not match, has been read as success
C22_Witness ==
    /\ qr_result.status = "success"
    /\ Len(qr_document.pages) = 2
    /\ \A i \in 1..2 : \E j \in DOMAIN qr_document.pages[i] :
          qr_document.pages[i][j] = qr_result.transport_no
    /\ \E j \in DOMAIN qr_document.pages[1] : qr_document.pages[1][j] = InvalidCode

\* C23: when the regrouping merges a group that holds a pending file that
\* cannot be read, that file is in error afterwards and no longer in pending.
C23_InvalidInputGoesToError ==
    [][~processing /\ processing' =>
         \A x \in IDS : \A sfx \in DOMAIN pending[x] :
            pending[x][sfx] = InvalidPDF /\ lastMerge'[x].target # "none" =>
               /\ error'[x] = InvalidPDF
               /\ sfx \notin DOMAIN pending'[x]]_vars

\* C24: a request for a batch cycle is answered with success once its cycle
\* has started, while the cycle is still in progress: the step in which the
\* manual trigger starts a cycle leaves its answer, and RUN_BATCH is answered
\* with success and a cycle in progress.
C24_AnsweredWhileCycleRuns ==
    [][/\ (~processing /\ processing' /\ phase'["manual"] # "idle") =>
            batch_response' = Answer("trigger_batch", TRUE)
       /\ (batch_response' # batch_response /\ batch_response'.command = "RUN_BATCH") =>
            batch_response' = Answer("RUN_BATCH", TRUE) /\ processing']_vars

\* C25: after every request to POST /api/command the audit log holds an
\* entry with the authenticated user, the client address, the command type
\* and the result the command had.
C25_EveryCommandAudited ==
    command_response.type # "none" =>
        \E i \in DOMAIN audit_entries :
            LET e == audit_entries[i]
            IN /\ e.user = command_response.username
               /\ "ip" \in DOMAIN e /\ e.ip = command_response.ip
               /\ e.action = command_response.type
               /\ e.result = (IF command_response.success THEN "SUCCESS" ELSE "ERROR")

\* C26: with upload.type set to the combined backend's name, dual, every
\* call of upload_file runs the NAS upload and the HTTP upload and answers
\* success exactly when one of the two succeeded.
C26_DualSucceedsIfEitherDoes ==
    [][uploads' = uploads + 1 /\ upload_result'.type = "dual" =>
          /\ upload_result'.nas # "none"
          /\ upload_result'.http # "none"
          /\ upload_result'.success <=>
                \/ upload_result'.nas \in {"same", "ok"}
                \/ HTTPSuccess(upload_result'.http)]_vars

\* every member of the object, members of its auth object included, is in
\* the saved object with the value it had
Preserved(item, saved) ==
    /\ \A k \in DOMAIN item \ {"auth"} : k \in DOMAIN saved /\ saved[k] = item[k]
    /\ \A f \in DOMAIN item.auth :
          f \in DOMAIN saved.auth /\ saved.auth[f] = item.auth[f]

\* C27: after load, save and load the registry is what the first load gave,
\* and the saved file holds every instance of the file that was loaded with
\* every member it had there, the members of its auth descriptor included.
C27_RegistryRoundTrip ==
    registry_phase = "reloaded" =>
        /\ registry_instances = first_load
        /\ registry_file.version = registry_source.version
        /\ \A i \in DOMAIN registry_source.instances :
              \E j \in DOMAIN registry_file.instances :
                 /\ registry_file.instances[j].id = registry_source.instances[i].id
                 /\ Preserved(registry_source.instances[i], registry_file.instances[j])

\* the name of the failure an unreachable instance's probe met
Category(outcome) ==
    CASE outcome.kind = "timeout" -> "timeout"
      [] outcome.kind = "refused" -> "connection refused"
      [] outcome.kind = "http" -> "non-2xx"
      [] OTHER -> "schema failure"

\* C28: the answer of the health endpoint has one row per registered
\* instance; a row is online exactly when the probe got a status object, and
\* the row of any other instance names the category of what the probe met.
C28_HealthRowsNameFailure ==
    health_done =>
        /\ Len(health_list) = Len(registry_instances)
        /\ \A i \in DOMAIN registry_instances :
              Cardinality({j \in DOMAIN health_list :
                  health_list[j].instance_id = registry_instances[i].id}) = 1
        /\ \A j \in DOMAIN health_list :
              LET row == health_list[j]
              IN /\ row.online <=> probes[j].kind = "ok"
                 /\ ~row.online =>
                       \E k \in DOMAIN row \ {"online"} : row[k] = Category(probes[j])

\* C29: a file the stability gate has released, so that the callback was
\* made for it, is out of scanner_output at some later time.
C29_ReleasedLeavesInbox ==
    \A p \in Paths : [](callbacks[p] > 0 => <>(inbox[p] = Absent))

\* the identifiers with a queue row that has failed at least once and has
\* attempts left
FailingIds(q) ==
    {q[i].transport_no : i \in {j \in DOMAIN q : q[j].retry_count \in 1..(max_attempts - 1)}}

\* an upload attempt on x ends with success or with its last failure
AttemptEnds(x) ==
    \E c \in Callers :
        /\ phase[c] = "uploading" /\ phase'[c] = "upload"
        /\ Head(todo[c]).transport_no = x
        /\ lastUpload' = "ok" \/ Head(todo[c]).retry_count + 1 >= max_attempts

C31_UploadedWasDelivered ==
    [][\A x \in IDS :
          uploaded'[x] # NoFile /\ uploaded'[x] # uploaded[x] =>
             /\ \E c \in Callers :
                   /\ phase[c] = "uploading"
                   /\ Head(todo[c]).transport_no = x
             /\ lastUpload' = "ok"
             /\ uploaded'[x] = merged[x]]_vars

\* C32: when the group of one identifier fails in the regrouping of a
\* cycle, the cycle goes on to its uploads, the failing group's files stay
\* where they are, and every other identifier gets exactly the outcome its
\* own files determine: the one it would get if the failing group were absent.
C32_FailingGroupIsIsolated ==
    [][~processing /\ processing' /\ (\E y \in IDS : GroupRaises(y)) =>
          /\ \E c \in Callers : phase'[c] = "upload"
          /\ \A x \in IDS :
                IF GroupRaises(x)
                THEN /\ pending'[x] = pending[x]
                     /\ merged'[x] = merged[x]
                     /\ uploaded'[x] = uploaded[x]
                ELSE /\ pending'[x] = MergeGroup(x).pending
                     /\ merged'[x] = MergeGroup(x).merged
                     /\ uploaded'[x] = MergeGroup(x).uploaded
                     /\ lastMerge'[x] = MergeGroup(x).log
                     /\ NeedsMerge(GroupFiles(x)) =>
                           /\ lastMerge'[x].target # "none"
                           /\ DOMAIN pending'[x] = {}]_vars

\* a cycle has merged the files of one identifier while the only file of
\* another one, which cannot be read, is still in pending
C32_Witness ==
    \E x, y \in IDS :
        /\ processing
        /\ lastReq = "started"
        /\ DOMAIN pending[y] = {<<>>}
        /\ pending[y][<<>>] = InvalidPDF
        /\ lastMerge[y] = NoMerge
        /\ lastMerge[x].target = "merged"
        /\ lastMerge[x].folders = {"pending", "uploaded"}
        /\ merged[x] # NoFile

\* C33: the flag _processing is set exactly while a caller is inside
\* process_batch; every step that ends a cycle, by the end of its phases or
\* by a phase that raised, leaves the flag cleared; and the first call of
\* process_batch after a cycle that raised is not refused but starts a cycle.
C33_FlagClearedWhenCycleEnds ==
    /\ [](processing <=> (\E c \in Callers : phase[c] # "idle"))
    /\ [][\A c \in Callers :
             phase[c] # "idle" /\ phase'[c] = "idle" => ~processing']_vars
    /\ [][lastReq = "raised" /\ lastReq' # "raised" =>
             /\ lastReq' = "started"
             /\ processing'
             /\ \E c \in Callers : phase'[c] # "idle"]_vars

\* a cycle requested over HTTP has ended by a raise, with a row of the
\* upload queue and its artifact left for a later cycle
C33_Witness ==
    /\ lastReq = "raised"
    /\ ~processing
    /\ \A c \in Callers : phase[c] = "idle"
    /\ batch_response = Answer("trigger_batch", TRUE)
    /\ \E i \in DOMAIN upload_queue :
          /\ upload_queue[i].retry_count = 0
          /\ merged[upload_queue[i].transport_no] # NoFile

\* C34: two arrivals with the same identifier whose classification tasks
\* are in flight together get distinct names in pending and both survive: no
\* step replaces or removes a file of pending/<date>/, and every document
\* marked PENDING has its own file there.
C34_ConcurrentArrivalsBothSurvive ==
    /\ [][\A x \in IDS : \A s \in DOMAIN pendingDated[x] :
             /\ s \in DOMAIN pendingDated'[x]
             /\ pendingDated'[x][s] = pendingDated[x][s]]_vars
    /\ [](\A x \in IDS :
             Cardinality(DOMAIN pendingDated[x]) =
                Cardinality({i \in DOMAIN docs : docs[i] =
                                [transport_no |-> x, status |-> "PENDING"]}))

\* the task that started first has found <X>.pdf taken by the file of a task
\* that started after it, and is about to move its file to <X>(1).pdf
C34_Witness ==
    \E n \in Scans, x \in IDS :
        /\ jobs[n].pc = "moving"
        /\ jobs[n].doc = 1
        /\ jobs[n].status = "success"
        /\ jobs[n].transport_no = x
        /\ jobs[n].dest = <<1>>
        /\ Len(docs) = 2
        /\ docs[2] = [transport_no |-> x, status |-> "PENDING"]
        /\ <<>> \in DOMAIN pendingDated[x]

\* C35: the pages of the artifact are the pages of the inputs in the order
\* of the inputs' file times, oldest first; of two inputs with the same time
\* the one in uploaded comes before the one in merged, and that one before
\* the one in pending; the names of the files play no part.
C35_OldestFirst ==
    merge_output # NoOutput =>
        \A a, b \in merge_inputs :
            (\/ a.st_mtime < b.st_mtime
             \/ a.st_mtime = b.st_mtime /\ Rank(a.folder) < Rank(b.folder))
            => \E i, j \in DOMAIN merge_output :
                  /\ i < j
                  /\ merge_output[i] = a.pages[1]
                  /\ merge_output[j] = b.pages[1]

\* the paths a pass of watcher w checks
Checked(w) ==
    IF mode = "realtime" THEN pending_files[w]
    ELSE {p \in Paths : inbox[p] # Absent} \ processed_files[w]

\* C36: a check that finds the file of a tracked path missing leaves the
\* checker without an entry for the path, and a check whose read probe fails
\* resets the path's progress, so that stability_checks further checks of an
\* unchanged size are needed before the path is released.
C36_FailedCheckResetsProgress ==
    [][\A w \in Watchers :
          CheckPendingFiles(w) \/ PollingRound(w) =>
             \A p \in Checked(w) :
                /\ inbox[p] = Absent =>
                      /\ file_sizes'[w][p] = Absent
                      /\ check_counts'[w][p] = 0
                /\ (/\ inbox[p] # Absent
                    /\ file_sizes[w][p] = inbox[p]
                    /\ EnoughChecks(check_counts[w][p] + 1)
                    /\ p \notin last_pass'.readable)
                   => check_counts'[w][p] <= 1]_vars

\* C38: while the lock of an address has not run out, no request changes
\* its failure counter or its lock expiry; a lock is there exactly when the
\* counter has reached limiter_max_attempts; and the first change of a record
\* whose lock has run out leaves a counter of at most one and no lock, so
\* that limiter_max_attempts new failures are needed for the next lock.
C38_LockedRecordIsFrozen ==
    /\ [][\A ip \in IPs :
             failures[ip].locked_until > now => failures'[ip] = failures[ip]]_vars
    /\ [](\A ip \in IPs :
             /\ failures[ip].attempts <= limiter_max_attempts
             /\ failures[ip].locked_until > 0
                   <=> failures[ip].attempts = limiter_max_attempts)
    /\ [][\A ip \in IPs :
             (/\ failures[ip].locked_until > 0
              /\ failures[ip].locked_until <= now
              /\ failures'[ip] # failures[ip])
             => /\ failures'[ip].attempts <= 1
                /\ failures'[ip].locked_until = 0]_vars

\* a request with the right credentials was refused while the address was
\* locked, and the lock has since run out with the record as it was
C38_Witness ==
    \E ip \in IPs :
        /\ auth_response.ip = ip
        /\ auth_response.locked
        /\ auth_response.credentials = "right"
        /\ failures[ip].attempts = limiter_max_attempts
        /\ failures[ip].locked_until > 0
        /\ failures[ip].locked_until <= now

\* C40: a PUT /api/admin/instances request that fails (an invalid record in
\* the body, or a save error) leaves the registry in memory and the
\* registry file as they were before the request.
C40_FailedUpdateChangesNothing ==
    [][\A body \in ItemLists, target \in SaveTargets, written \in BOOLEAN :
          UpdateInstances(body, target, written) /\ update_response' = 500 =>
              /\ registry_instances' = registry_instances
              /\ registry_file' = registry_file]_vars

\* C39: moving a file into the error folder never overwrites or removes a
\* file or a sidecar that is already there, on the classification path
\* (error/<yyyymmdd>/) and on the upload-failure path (error/) alike.
C39_ErrorFilesAreKept ==
    /\ [][\A n \in Scans : \A s \in DOMAIN errorDated[n] :
             /\ s \in DOMAIN errorDated'[n]
             /\ errorDated'[n][s] = errorDated[n][s]
             /\ s \in DOMAIN errorDatedInfo'[n]
             /\ errorDatedInfo'[n][s] = errorDatedInfo[n][s]]_vars
    /\ [][\A x \in IDS : error[x] # NoFile =>
             /\ error'[x] = error[x]
             /\ error_info'[x] = error_info[x]]_vars

\* C37: the scheduler starts a cycle only when the time since the last
\* recorded activity exceeds idle_minutes, and the end of the classification
\* of every arrival, whatever its outcome, records an activity: it sets that
\* time to zero.
C37_EveryArrivalRestartsIdle ==
    /\ [][phase["scheduler"] = "idle" /\ phase'["scheduler"] # "idle" =>
             idle_for' > idle_minutes * 60]_vars
    /\ [][\A n \in Scans :
             jobs[n].pc = "moving" /\ jobs'[n].pc = "none" => idle_for' = 0]_vars

TypeOK ==
    /\ processing \in BOOLEAN
    /\ paused \in BOOLEAN
    /\ \A x \in IDS : merged[x] \in Seq(Pages) /\ uploaded[x] \in Seq(Pages)
    /\ \A c \in Callers : phase[c] \in {"idle", "upload", "uploading"}
    /\ lastReq \in {"none", "started", "skipped", "raised"}
    /\ batch_response \in {NoBatchResponse, Waiting("trigger_batch"),
                           Answer("trigger_batch", TRUE), Answer("RUN_BATCH", FALSE)}
    /\ lastUpload \in {"none", "ok", "failed", "missing"}
    /\ \A ip \in IPs :
          /\ failures[ip].attempts \in 0..limiter_max_attempts
          /\ failures[ip].locked_until \in Nat
          /\ streak[ip] \in 0..limiter_max_attempts
    /\ auth_response.status \in {0, 200, 401}
    /\ auth_response.via \in Entries \cup {"none"}
    /\ clock_steps \in 0..MaxClockSteps
    /\ mode \in Modes
    /\ running \subseteq Watchers
    /\ \A p \in Paths : inbox[p] \in Sizes \cup {Absent} /\ callbacks[p] \in 0..MaxCallbacks
    /\ \A w \in Watchers, p \in Paths :
          /\ file_sizes[w][p] \in Sizes \cup {Absent}
          /\ check_counts[w][p] \in 0..MaxCount
          /\ Len(observed[w][p]) <= MaxCount
    /\ \A i \in DOMAIN upload_queue : upload_queue[i].retry_count < max_attempts
    /\ \A i \in DOMAIN docs :
          docs[i].status \in {"PROCESSING", "PENDING", "MERGED", "UPLOADED", "ERROR"}
    /\ \A n \in Scans : jobs[n].pc \in {"none", "reading", "read", "moving"}
    /\ loop_owner \in Scans \cup {0}
    /\ multiple_qr_action \in {"error", "manual"}
    /\ \A n \in Scans : DOMAIN errorDated[n] = DOMAIN errorDatedInfo[n]

====
